---- MODULE Spec2Model ----
(***************************************************************************)
(* Model of src/25/snowverload.py: UndirectedGraph.from_lines and          *)
(* UndirectedGraph.calculate_min_cut (Karger's random contraction with a   *)
(* cached stage one).                                                      *)
(*                                                                         *)
(* A vertex is a natural: the rank of its name, in Python's string order,  *)
(* among the names of the input, so that < on vertices is < on the names.  *)
(* A dict keyed by vertex is a function on its live keys.                  *)
(* A Counter is kept as the sequence of                                    *)
(* its <<key, count>> items in insertion order, because the loop of line   *)
(* 113 iterates it in that order.  A Python list is a sequence (1-based    *)
(* here, 0-based random indices are shifted by one); a Python set is a     *)
(* set.  None is the empty tuple.                                          *)
(*                                                                         *)
(* The module also models src/20/pulse_propagation.py: propagate and       *)
(* count_pulse_types, in its last section.  The two programs share no      *)
(* state; each specification leaves the other program's variables idle.    *)
(***************************************************************************)
EXTENDS Integers, Sequences, FiniteSets, TLC

\* Bounds of the model.
MaxVertices == 4
MaxEdges == 3
MaxCutSize == 3
ScaledStageOneVertices == 3

VARIABLES
    lines,                    \* the input of from_lines (kept for reference)
    hash_seed,                \* which iteration order this process gives its sets
    self_vertex_adjacencies,  \* self.vertex_adjacencies: vertex -> set of vertices
    self_edges,               \* self.edges: set of pairs <<smaller, larger>>
    expected_min_cut_size,    \* the argument of calculate_min_cut
    stage_one_min_vertices,   \* line 76
    stage_two_max_iterations, \* line 79
    stage_one_results,        \* line 77: None (<<>>) or <<adj, list, set, contractions>>
    stage_two_iterations,     \* line 78
    vertex_adjacencies,       \* working copy: vertex -> Counter
    edges_list,               \* working copy
    edges_set,                \* working copy
    vertex_contractions,      \* working copy: vertex -> set of original vertices
    ref,                      \* which object each working name refers to
    pc,                       \* "from_lines" (line 159), "built" (line 160), "start" (line 80),
                              \* "inner" (line 91), "returned", "failed"
    result,                   \* the returned pair of sets, <<>> before the return
    result_ref,               \* which objects the returned sets are
    error,                    \* the exception that ended the call, "" if none
    error_args,               \* what the exception carries: <<line number, line>> or <<>>
    trial_discarded,          \* ghost: multiplicity dropped as self-loops since line 80
    history_discarded,        \* ghost: the same, counting what a cached start state had dropped
    cache_discarded,          \* ghost: multiplicity the cached state had dropped
    twin,                     \* ghost: the same trial in a process of the other iteration order
    original_graph,           \* ghost: what from_lines made of the lines
    \* src/20/pulse_propagation.py, count_pulse_types:
    config,                   \* the argument config: the modules in insertion order
    state,                    \* the local state (line 150, reassigned at line 164)
    num_button_presses,       \* the argument num_button_presses
    witnessed_states,         \* line 151: dict, as its <<key, value>> items in insertion order
    witnessed_state_sequence, \* line 152
    total_low_pulses,         \* line 153
    total_high_pulses,        \* line 154
    loop_i,                   \* the loop variable i of line 155, -1 while unbound
    pulse_pc,                 \* "idle", "loop" (line 155), "after_loop" (line 165),
                              \* "returned", "failed"
    pulse_result,             \* the returned pair, <<>> before the return
    initial_state             \* ghost: the argument state

\* The variables of count_pulse_types.
pulse_vars == <<config, state, num_button_presses, witnessed_states,
                witnessed_state_sequence, total_low_pulses, total_high_pulses,
                loop_i, pulse_pc, pulse_result, initial_state>>

\* The variables of from_lines and calculate_min_cut.
cut_vars == <<lines, hash_seed, self_vertex_adjacencies, self_edges, expected_min_cut_size,
              stage_one_min_vertices, stage_two_max_iterations, stage_one_results,
              stage_two_iterations, vertex_adjacencies, edges_list, edges_set,
              vertex_contractions, ref, pc, result, result_ref, error, error_args,
              trial_discarded, history_discarded, cache_discarded, twin,
              original_graph>>

vars == <<lines, hash_seed, self_vertex_adjacencies, self_edges, expected_min_cut_size,
          stage_one_min_vertices, stage_two_max_iterations, stage_one_results,
          stage_two_iterations, vertex_adjacencies, edges_list, edges_set,
          vertex_contractions, ref, pc, result, result_ref, error, error_args,
          trial_discarded, history_discarded, cache_discarded, twin,
          original_graph, pulse_vars>>

None == <<>>

\* No call of count_pulse_types is under way.
PulseIdle ==
    /\ config = <<>>
    /\ state = <<>>
    /\ num_button_presses = 0
    /\ witnessed_states = <<>>
    /\ witnessed_state_sequence = <<>>
    /\ total_low_pulses = 0
    /\ total_high_pulses = 0
    /\ loop_i = -1
    /\ pulse_pc = "idle"
    /\ pulse_result = <<>>
    /\ initial_state = <<>>

(***************************************************************************)
(* Generic helpers.                                                        *)
(***************************************************************************)
Pair(u, v) == IF u < v THEN <<u, v>> ELSE <<v, u>>

PairLess(e, f) == e[1] < f[1] \/ (e[1] = f[1] /\ e[2] < f[2])

RECURSIVE SumOver(_, _)
SumOver(S, f) ==
    IF S = {} THEN 0
    ELSE LET x == CHOOSE y \in S : TRUE IN f[x] + SumOver(S \ {x}, f)

RECURSIVE SeqSum(_)
SeqSum(s) == IF s = <<>> THEN 0 ELSE Head(s) + SeqSum(Tail(s))

CeilDiv(a, b) == (a + b - 1) \div b

(***************************************************************************)
(* Iteration order of a Python set.  CPython's order depends on the        *)
(* process's string hash seed; the model lets a process iterate its sets   *)
(* either in ascending or in descending order of the elements.             *)
(***************************************************************************)
HashSeeds == {0, 1}

RECURSIVE VerticesInOrder(_, _)
VerticesInOrder(S, seed) ==
    IF S = {} THEN <<>>
    ELSE LET x == IF seed = 0 THEN CHOOSE y \in S : \A z \in S : y <= z
                  ELSE CHOOSE y \in S : \A z \in S : z <= y
         IN <<x>> \o VerticesInOrder(S \ {x}, seed)

RECURSIVE EdgesInOrder(_, _)
EdgesInOrder(S, seed) ==
    IF S = {} THEN <<>>
    ELSE LET x == IF seed = 0
                  THEN CHOOSE y \in S : \A z \in S : y = z \/ PairLess(y, z)
                  ELSE CHOOSE y \in S : \A z \in S : y = z \/ PairLess(z, y)
         IN <<x>> \o EdgesInOrder(S \ {x}, seed)

(***************************************************************************)
(* Text.  A line is the sequence of its characters, each a one-character   *)
(* string.  A vertex name is a non-empty sequence of lower-case letters;   *)
(* names are ordered as Python orders strings.                             *)
(***************************************************************************)
Letters == <<"a", "b", "c", "d", "e", "f", "g", "h", "i", "j", "k", "l", "m",
             "n", "o", "p", "q", "r", "s", "t", "u", "v", "w", "x", "y", "z">>

IsLetter(c) == \E j \in 1..Len(Letters) : Letters[j] = c

LetterIndex(c) == CHOOSE j \in 1..Len(Letters) : Letters[j] = c

RECURSIVE NameLess(_, _)
\* m < n on strings of letters.
NameLess(m, n) ==
    IF n = <<>> THEN FALSE
    ELSE IF m = <<>> THEN TRUE
    ELSE IF Head(m) # Head(n) THEN LetterIndex(Head(m)) < LetterIndex(Head(n))
    ELSE NameLess(Tail(m), Tail(n))

RECURSIVE Split(_)
\* str.split(): the maximal runs of characters other than the space.
Split(s) ==
    IF s = <<>> THEN <<>>
    ELSE IF Head(s) = " " THEN Split(Tail(s))
    ELSE LET stop == IF \E j \in 1..Len(s) : s[j] = " "
                     THEN CHOOSE j \in 1..Len(s) :
                              s[j] = " " /\ \A n \in 1..(j - 1) : s[n] # " "
                     ELSE Len(s) + 1
         IN <<SubSeq(s, 1, stop - 1)>> \o Split(SubSeq(s, stop, Len(s)))

\* Lines 20 and 33: VERTEX_ADJACENCIES_LINE_PATTERN.fullmatch(line), as
\* <<>> for no match or the two groups <<name, raw_adjacent_vertices>>.
FullMatch(line) ==
    LET colons == {n \in 2..(Len(line) - 1) :
                      /\ line[n] = ":"
                      /\ \A j \in 1..(n - 1) : IsLetter(line[j])
                      /\ \A j \in (n + 1)..Len(line) : line[j] = " " \/ IsLetter(line[j])}
    IN IF colons = {} THEN <<>>
       ELSE LET n == CHOOSE x \in colons : TRUE
                \* " *" takes every space it can and leaves one character to the group
                spaces == CHOOSE k \in 0..(Len(line) - n - 1) :
                              /\ \A j \in (n + 1)..(n + k) : line[j] = " "
                              /\ k = Len(line) - n - 1 \/ line[n + k + 1] # " "
            IN <<SubSeq(line, 1, n - 1), SubSeq(line, n + spaces + 1, Len(line))>>

\* The names on the lines that match, on either side of the colon.
NamesIn(ls) ==
    UNION {IF FullMatch(ls[i]) = <<>> THEN {}
           ELSE {FullMatch(ls[i])[1]} \cup
                {Split(FullMatch(ls[i])[2])[j] : j \in 1..Len(Split(FullMatch(ls[i])[2]))}
           : i \in 1..Len(ls)}

\* A vertex is the rank of its name, in string order, among the names of the input.
VertexOf(name, names) == Cardinality({m \in names : m = name \/ NameLess(m, name)})

\* Lines 33-37: what the loop body has of a line before it touches the graph.
Matched(line, names) ==
    LET match == FullMatch(line)
    IN IF match = <<>> THEN [valid |-> FALSE, vertex |-> 0, adjacent |-> {}]
       ELSE LET tokens == Split(match[2])
            IN [valid |-> TRUE,
                vertex |-> VertexOf(match[1], names),
                adjacent |-> {VertexOf(tokens[j], names) : j \in 1..Len(tokens)}]

RECURSIVE Joined(_)
Joined(vs) == IF vs = <<>> THEN <<>> ELSE <<" ", Letters[Head(vs)]>> \o Joined(Tail(vs))

\* The line that declares vertex v adjacent to the vertices of adj, the
\* vertices 1, 2, 3, ... being named a, b, c, ...
Line(v, adj) == <<Letters[v], ":">> \o Joined(VerticesInOrder(adj, 0))

(***************************************************************************)
(* UndirectedGraph.from_lines (lines 28-49).                               *)
(***************************************************************************)
SetDefault(f, k, d) == [x \in DOMAIN f \cup {k} |-> IF x \in DOMAIN f THEN f[x] ELSE d]

RECURSIVE AddAdjacentOneWay(_, _, _)
\* Mutant of AddAdjacent: lines 44-47 are missing, the adjacent vertex does not
\* learn of the edge.
AddAdjacentOneWay(st, vertex, todo) ==
    IF todo = {} \/ st.err # "" THEN st
    ELSE LET a == CHOOSE x \in todo : TRUE IN
         IF a = vertex
         THEN [st EXCEPT !.err = "AssertionError"]
         ELSE AddAdjacentOneWay([st EXCEPT !.edges = @ \cup {Pair(vertex, a)}],
                                vertex, todo \ {a})

RECURSIVE AddAdjacentUnasserted(_, _, _)
\* Mutant of AddAdjacent: the assertion of line 43 is missing.
AddAdjacentUnasserted(st, vertex, todo) ==
    IF todo = {} \/ st.err # "" THEN st
    ELSE LET a == CHOOSE x \in todo : TRUE IN
         AddAdjacentUnasserted(
                [st EXCEPT
                   !.vertex_adjacencies =
                       [SetDefault(@, a, {}) EXCEPT ![a] = @ \cup {vertex}],
                   !.edges = @ \cup {Pair(vertex, a)}],
                vertex, todo \ {a})

RECURSIVE AddAdjacent(_, _, _)
\* The loop of lines 42-48 over the adjacent vertices still to visit.
AddAdjacent(st, vertex, todo) ==
    IF todo = {} \/ st.err # "" THEN st
    ELSE LET a == CHOOSE x \in todo : TRUE IN
         IF a = vertex
         THEN [st EXCEPT !.err = "AssertionError"]
         ELSE AddAdjacent(
                [st EXCEPT
                   !.vertex_adjacencies =
                       [SetDefault(@, a, {}) EXCEPT ![a] = @ \cup {vertex}],
                   !.edges = @ \cup {Pair(vertex, a)}],
                vertex, todo \ {a})

\* Mutant of FromLinesStep: line 41 with = for |=, a later declaration replaces
\* the earlier one.
FromLinesStepOverwriting(st, line, i) ==
    IF st.err # "" THEN st
    ELSE IF ~line.valid
    THEN [st EXCEPT !.err = "ValueError", !.err_line = i]
    ELSE LET va == [SetDefault(st.vertex_adjacencies, line.vertex, {})
                      EXCEPT ![line.vertex] = line.adjacent]
         IN AddAdjacent([st EXCEPT !.vertex_adjacencies = va, !.err_line = i],
                        line.vertex, line.adjacent)

\* Mutant of FromLinesStep: the loop goes on after a line that does not match,
\* and the error is that of the last such line.
FromLinesStepKeepsGoing(st, line, i) ==
    IF ~line.valid /\ st.err \in {"", "ValueError"}
    THEN [st EXCEPT !.err = "ValueError", !.err_line = i]
    ELSE IF st.err # "" THEN st
    ELSE LET va == [SetDefault(st.vertex_adjacencies, line.vertex, {})
                      EXCEPT ![line.vertex] = @ \cup line.adjacent]
         IN AddAdjacent([st EXCEPT !.vertex_adjacencies = va, !.err_line = i],
                        line.vertex, line.adjacent)

\* Lines 33-48: the body of the loop for line i.
FromLinesStep(st, line, i) ==
    IF st.err # "" THEN st
    ELSE IF ~line.valid
    THEN [st EXCEPT !.err = "ValueError", !.err_line = i]
    ELSE LET va == [SetDefault(st.vertex_adjacencies, line.vertex, {})
                      EXCEPT ![line.vertex] = @ \cup line.adjacent]
         IN AddAdjacent([st EXCEPT !.vertex_adjacencies = va, !.err_line = i],
                        line.vertex, line.adjacent)

RECURSIVE FromLinesFrom(_, _, _)
FromLinesFrom(st, ls, i) ==
    IF i > Len(ls) THEN st
    ELSE FromLinesFrom(FromLinesStep(st, ls[i], i), ls, i + 1)

from_lines(ls) ==
    LET names == NamesIn(ls)
    IN FromLinesFrom([vertex_adjacencies |-> <<>>, edges |-> {}, err |-> "", err_line |-> 0],
                     [i \in 1..Len(ls) |-> Matched(ls[i], names)], 1)

(***************************************************************************)
(* The inputs of the model.  A simple graph on the vertices 1..n in which  *)
(* no vertex is isolated is given by the lines that declare each vertex    *)
(* with its larger neighbours.  The inputs are all such graphs on up to    *)
(* four vertices, and all such graphs on up to MaxVertices vertices that   *)
(* have at most MaxEdges edges.                                            *)
(***************************************************************************)
AllPairs(n) == {e \in (1..n) \X (1..n) : e[1] < e[2]}

Endpoints(E) == {e[1] : e \in E} \cup {e[2] : e \in E}

RECURSIVE LinesOf(_, _)
LinesOf(E, todo) ==
    IF todo = <<>> THEN <<>>
    ELSE LET v == Head(todo)
             larger == {e[2] : e \in {f \in E : f[1] = v}}
         IN (IF larger = {} THEN <<>> ELSE <<Line(v, larger)>>) \o LinesOf(E, Tail(todo))

GraphsOn(n) == {E \in SUBSET AllPairs(n) : \E m \in 2..n : Endpoints(E) = 1..m}

InputEdgeSets ==
    GraphsOn(4) \cup {E \in GraphsOn(MaxVertices) : Cardinality(E) <= MaxEdges}

InputLinesOf(E) == LinesOf(E, VerticesInOrder(Endpoints(E), 0))

\* The graphs on up to four vertices are run under both iteration orders.
InputHashSeeds(E) == IF E \in GraphsOn(4) THEN HashSeeds ELSE {0}

(***************************************************************************)
(* collections.Counter, as the sequence of its items in insertion order.   *)
(***************************************************************************)
CounterKeys(c) == {c[j][1] : j \in 1..Len(c)}

\* c[k]: a missing key reads as 0 and is not inserted.
CounterGet(c, k) ==
    IF k \in CounterKeys(c) THEN c[CHOOSE j \in 1..Len(c) : c[j][1] = k][2] ELSE 0

\* del c[k]: Counter.__delitem__ does not raise on a missing key.
CounterDel(c, k) == SelectSeq(c, LAMBDA item : item[1] # k)

\* c[k] += n: an existing key keeps its place, a new key goes last.
CounterAdd(c, k, n) ==
    IF k \in CounterKeys(c)
    THEN [j \in 1..Len(c) |-> IF c[j][1] = k THEN <<k, c[j][2] + n>> ELSE c[j]]
    ELSE Append(c, <<k, n>>)

\* Counter(iterable of distinct keys): each key counted once, in iteration order.
CounterOf(keys) == [j \in 1..Len(keys) |-> <<keys[j], 1>>]

CounterTotal(c) == SeqSum([j \in 1..Len(c) |-> c[j][2]])

(***************************************************************************)
(* list.pop(i) and list.remove(x).                                         *)
(***************************************************************************)
ListWithout(l, j) == [n \in 1..(Len(l) - 1) |-> IF n < j THEN l[n] ELSE l[n + 1]]

ListIndex(l, x) == CHOOSE j \in 1..Len(l) : l[j] = x /\ \A n \in 1..(j - 1) : l[n] # x

ListRemove(l, x) == ListWithout(l, ListIndex(l, x))

(***************************************************************************)
(* One contraction: lines 107-129, on a working state                      *)
(* w = [adj, elist, eset, contr, dropped, err].  dropped is the            *)
(* multiplicity deleted by lines 110-111; err names the exception raised,  *)
(* after which nothing more is done.                                       *)
(***************************************************************************)
\* Mutant of RedirectCounts: line 117 is missing, only supernode's Counter learns
\* of the redirected edges.
RedirectCountsOneWay(adj, supernode, subnode, adjacent_vertex) ==
    LET adj1 == [adj EXCEPT ![supernode] =
                     CounterAdd(@, adjacent_vertex, CounterGet(adj[adjacent_vertex], subnode))]
    IN [adj1 EXCEPT ![adjacent_vertex] = CounterDel(@, subnode)]

\* Mutant of RedirectCounts: lines 116-117 add one edge, not the multiplicity.
RedirectCountsByOne(adj, supernode, subnode, adjacent_vertex) ==
    LET adj1 == [adj EXCEPT ![supernode] = CounterAdd(@, adjacent_vertex, 1)]
        adj2 == [adj1 EXCEPT ![adjacent_vertex] = CounterAdd(@, supernode, 1)]
    IN [adj2 EXCEPT ![adjacent_vertex] = CounterDel(@, subnode)]

\* Mutant of RedirectCounts: lines 116-117 with = for +=, the multiplicity to
\* subnode replaces the multiplicity to supernode.
RedirectCountsReplacing(adj, supernode, subnode, adjacent_vertex) ==
    LET m == CounterGet(adj[adjacent_vertex], subnode)
        adj1 == [adj EXCEPT ![supernode] =
                     CounterAdd(CounterDel(@, adjacent_vertex), adjacent_vertex, m)]
        adj2 == [adj1 EXCEPT ![adjacent_vertex] =
                     CounterAdd(CounterDel(@, supernode), supernode, m)]
    IN [adj2 EXCEPT ![adjacent_vertex] = CounterDel(@, subnode)]

\* Mutant of RedirectCounts: line 118 is missing, adjacent_vertex keeps its
\* entry for subnode.
RedirectCountsWithoutDelete(adj, supernode, subnode, adjacent_vertex) ==
    LET adj1 == [adj EXCEPT ![supernode] =
                     CounterAdd(@, adjacent_vertex, CounterGet(adj[adjacent_vertex], subnode))]
    IN [adj1 EXCEPT ![adjacent_vertex] =
            CounterAdd(@, supernode, CounterGet(adj1[adjacent_vertex], subnode))]

\* Lines 116-118: adjacent_vertex's edges to subnode become edges to supernode.
RedirectCounts(adj, supernode, subnode, adjacent_vertex) ==
    LET adj1 == [adj EXCEPT ![supernode] =
                     CounterAdd(@, adjacent_vertex, CounterGet(adj[adjacent_vertex], subnode))]
        adj2 == [adj1 EXCEPT ![adjacent_vertex] =
                     CounterAdd(@, supernode, CounterGet(adj1[adjacent_vertex], subnode))]
    IN [adj2 EXCEPT ![adjacent_vertex] = CounterDel(@, subnode)]

\* Mutant of RedirectNeighbour: the test of line 123 is missing, new_edge is
\* appended and added each time.
RedirectNeighbourAlwaysAppends(w, supernode, subnode, adjacent_vertex) ==
    IF w.err # "" THEN w
    ELSE IF adjacent_vertex = supernode
    THEN [w EXCEPT !.err = "AssertionError"]
    ELSE IF adjacent_vertex \notin DOMAIN w.adj
    THEN [w EXCEPT !.err = "KeyError"]
    ELSE LET back == CounterGet(w.adj[adjacent_vertex], subnode)
             old_edge == Pair(subnode, adjacent_vertex)
             new_edge == Pair(supernode, adjacent_vertex)
             adj2 == RedirectCounts(w.adj, supernode, subnode, adjacent_vertex)
         IN IF CounterGet(w.adj[subnode], adjacent_vertex) # back
            THEN [w EXCEPT !.err = "AssertionError"]
            ELSE IF adjacent_vertex = subnode
            THEN [w EXCEPT !.err = "RuntimeError"]
            ELSE IF \A j \in 1..Len(w.elist) : w.elist[j] # old_edge
            THEN [w EXCEPT !.adj = adj2, !.err = "ValueError"]
            ELSE IF old_edge \notin w.eset
            THEN [w EXCEPT !.adj = adj2, !.elist = ListRemove(@, old_edge),
                           !.err = "KeyError"]
            ELSE [w EXCEPT !.adj = adj2,
                           !.elist = Append(ListRemove(w.elist, old_edge), new_edge),
                           !.eset = (w.eset \ {old_edge}) \cup {new_edge}]

\* Lines 114-125: the body of the loop, for one adjacent vertex of subnode.
RedirectNeighbour(w, supernode, subnode, adjacent_vertex) ==
    IF w.err # "" THEN w
    ELSE IF adjacent_vertex = supernode
    THEN [w EXCEPT !.err = "AssertionError"]
    ELSE IF adjacent_vertex \notin DOMAIN w.adj
    THEN [w EXCEPT !.err = "KeyError"]
    ELSE LET back == CounterGet(w.adj[adjacent_vertex], subnode)
             old_edge == Pair(subnode, adjacent_vertex)
             new_edge == Pair(supernode, adjacent_vertex)
             adj2 == RedirectCounts(w.adj, supernode, subnode, adjacent_vertex)
         IN IF CounterGet(w.adj[subnode], adjacent_vertex) # back
            THEN [w EXCEPT !.err = "AssertionError"]
            ELSE IF adjacent_vertex = subnode
            THEN [w EXCEPT !.err = "RuntimeError"]
            ELSE IF \A j \in 1..Len(w.elist) : w.elist[j] # old_edge
            THEN [w EXCEPT !.adj = adj2, !.err = "ValueError"]
            ELSE IF old_edge \notin w.eset
            THEN [w EXCEPT !.adj = adj2, !.elist = ListRemove(@, old_edge),
                           !.err = "KeyError"]
            ELSE LET elist1 == ListRemove(w.elist, old_edge)
                     eset1 == w.eset \ {old_edge}
                 IN IF new_edge \notin eset1
                    THEN [w EXCEPT !.adj = adj2, !.elist = Append(elist1, new_edge),
                                   !.eset = eset1 \cup {new_edge}]
                    ELSE [w EXCEPT !.adj = adj2, !.elist = elist1, !.eset = eset1]

RECURSIVE RedirectAll(_, _, _, _, _)
\* Line 113: the loop over subnode's Counter, in its insertion order.
RedirectAll(w, supernode, subnode, keys, j) ==
    IF j > Len(keys) THEN w
    ELSE RedirectAll(RedirectNeighbour(w, supernode, subnode, keys[j][1]),
                     supernode, subnode, keys, j + 1)

\* Mutant of MergeContractions: line 128 is missing, subnode's record is lost.
MergeContractionsWithoutUnion(contr, supernode, subnode) ==
    [v \in DOMAIN contr \ {subnode} |-> contr[v]]

\* Mutant of MergeContractions: line 129 is missing, subnode's record stays.
MergeContractionsWithoutDelete(contr, supernode, subnode) ==
    [contr EXCEPT ![supernode] = @ \cup contr[subnode]]

\* Mutant of MergeContractions: line 128 is applied to every record that stays,
\* not to supernode's alone.
MergeContractionsIntoAll(contr, supernode, subnode) ==
    [v \in DOMAIN contr \ {subnode} |-> contr[v] \cup contr[subnode]]

\* Mutant of MergeContractions: lines 128-129 with the two nodes exchanged, the
\* merged record is kept under subnode.
MergeContractionsIntoSubnode(contr, supernode, subnode) ==
    [v \in DOMAIN contr \ {supernode} |->
        IF v = subnode THEN contr[v] \cup contr[supernode] ELSE contr[v]]

\* Lines 128-129: supernode's record takes in subnode's, which is deleted.
MergeContractions(contr, supernode, subnode) ==
    [v \in DOMAIN contr \ {subnode} |->
        IF v = supernode THEN contr[v] \cup contr[subnode] ELSE contr[v]]

\* Mutant of DropSelfLoop: line 111 is missing, subnode keeps its entry for supernode.
DropSelfLoopOneWay(adj, supernode, subnode) ==
    [adj EXCEPT ![supernode] = CounterDel(@, subnode)]

\* Lines 110-111: the edge between the two endpoints is deleted from both Counters.
DropSelfLoop(adj, supernode, subnode) ==
    [adj EXCEPT ![supernode] = CounterDel(@, subnode),
                ![subnode] = CounterDel(@, supernode)]

\* Lines 107-129 with random index i (0-based) of randrange(len(edges_list)).
Contract(w, i) ==
    LET edge == w.elist[i + 1]
        supernode == edge[1]
        subnode == edge[2]
        elist1 == ListWithout(w.elist, i + 1)
    IN IF edge \notin w.eset
       THEN [w EXCEPT !.elist = elist1, !.err = "KeyError"]
       ELSE IF supernode \notin DOMAIN w.adj \/ subnode \notin DOMAIN w.adj
       THEN [w EXCEPT !.elist = elist1, !.eset = @ \ {edge}, !.err = "KeyError"]
       ELSE LET w1 == [w EXCEPT
                         !.elist = elist1,
                         !.eset = @ \ {edge},
                         !.dropped = @ + CounterGet(w.adj[supernode], subnode),
                         !.adj = DropSelfLoop(@, supernode, subnode)]
                w2 == RedirectAll(w1, supernode, subnode, w1.adj[subnode], 1)
            IN IF w2.err # "" THEN w2
               ELSE IF supernode \notin DOMAIN w2.contr \/ subnode \notin DOMAIN w2.contr
               THEN [w2 EXCEPT !.adj = [v \in DOMAIN @ \ {subnode} |-> @[v]],
                               !.err = "KeyError"]
               ELSE [w2 EXCEPT
                       !.adj = [v \in DOMAIN @ \ {subnode} |-> @[v]],
                       !.contr = MergeContractions(@, supernode, subnode)]

(***************************************************************************)
(* The thresholds of the two stages (lines 21, 76, 79).  A probability is  *)
(* the pair <<numerator, denominator>>.  Besides the program's 1/100, for  *)
(* which stage one stops at 200 vertices, the model runs the same code     *)
(* with the probability 2/ScaledStageOneVertices, for which stage one      *)
(* stops at ScaledStageOneVertices vertices, a count the model's graphs    *)
(* reach.                                                                  *)
(***************************************************************************)
MIN_CUT_STAGE_ONE_FAILURE_PROBABILITY == <<1, 100>>

FailureProbabilities ==
    {MIN_CUT_STAGE_ONE_FAILURE_PROBABILITY, <<2, ScaledStageOneVertices>>}

\* ceil(2 / p)
StageOneMinVertices(p) == CeilDiv(2 * p[2], p[1])

\* ceil(comb(k, 2) * log(k)), tabulated for the thresholds the model uses.
StageTwoMaxIterations(k) ==
    CASE k = 1 -> 0
      [] k = 2 -> 1
      [] k = 3 -> 4
      [] k = 4 -> 9
      [] k = 5 -> 17
      [] k = 6 -> 27
      [] k = 7 -> 41
      [] k = 8 -> 59
      [] k = 200 -> 105437

(***************************************************************************)
(* Which object a working name refers to: "own" (an object of this trial), *)
(* "self" (the graph's own object) or "cache" (the object held by          *)
(* stage_one_results).  A write through a name changes the object it       *)
(* refers to.                                                              *)
(***************************************************************************)
OwnObjects == [adj |-> "own", elist |-> "own", eset |-> "own", contr |-> "own"]

\* Mutant of WorkingCopyOfSelf: line 89 without .copy(), edges_set is self.edges.
WorkingAliasOfSelfEdges ==
    [adj |-> [v \in DOMAIN self_vertex_adjacencies |->
                 CounterOf(VerticesInOrder(self_vertex_adjacencies[v], hash_seed))],
     elist |-> EdgesInOrder(self_edges, hash_seed),
     eset |-> self_edges,
     contr |-> [v \in DOMAIN self_vertex_adjacencies |-> {v}],
     ref |-> [OwnObjects EXCEPT !.eset = "self"]]

\* Lines 87-90: the working state built from the graph.
WorkingCopyOfSelf ==
    [adj |-> [v \in DOMAIN self_vertex_adjacencies |->
                 CounterOf(VerticesInOrder(self_vertex_adjacencies[v], hash_seed))],
     elist |-> EdgesInOrder(self_edges, hash_seed),
     eset |-> self_edges,
     contr |-> [v \in DOMAIN self_vertex_adjacencies |-> {v}],
     ref |-> OwnObjects]

\* Mutant of WorkingCopyOfCache: line 83 without .copy(), edges_list is the
\* cached list.
WorkingAliasOfCachedList ==
    [adj |-> stage_one_results[1],
     elist |-> stage_one_results[2],
     eset |-> stage_one_results[3],
     contr |-> stage_one_results[4],
     ref |-> [OwnObjects EXCEPT !.elist = "cache"]]

\* Lines 82-85: the working state copied from the cached stage-one state.
WorkingCopyOfCache ==
    [adj |-> stage_one_results[1],
     elist |-> stage_one_results[2],
     eset |-> stage_one_results[3],
     contr |-> stage_one_results[4],
     ref |-> OwnObjects]

\* Lines 97-102: the stage-one state copied from the working state.
CachedCopyOfWorking ==
    [results |-> <<vertex_adjacencies, edges_list, edges_set, vertex_contractions>>,
     ref |-> ref]

(***************************************************************************)
(* The twin of a trial: the same trial of the same call on the same graph  *)
(* in a process of the other iteration order, fed the random indices this  *)
(* call draws.  It is followed only where twin.on is set, and only through *)
(* the trials that start from the graph; twin.same tells that it has been  *)
(* given every index so far.                                               *)
(***************************************************************************)
TwinOff ==
    [on |-> FALSE, same |-> FALSE, adj |-> <<>>, elist |-> <<>>, eset |-> {},
     contr |-> <<>>, dropped |-> 0, err |-> ""]

TwinIdle == [TwinOff EXCEPT !.on = TRUE]

\* Lines 87-90 under the iteration order seed.
WorkingCopyUnder(seed) ==
    [adj |-> [v \in DOMAIN self_vertex_adjacencies |->
                 CounterOf(VerticesInOrder(self_vertex_adjacencies[v], seed))],
     elist |-> EdgesInOrder(self_edges, seed),
     eset |-> self_edges,
     contr |-> [v \in DOMAIN self_vertex_adjacencies |-> {v}]]

\* Lines 80-90 in the twin.
TwinStarted ==
    IF ~twin.on THEN twin
    ELSE IF stage_one_results # None THEN [TwinIdle EXCEPT !.same = FALSE]
    ELSE LET w == WorkingCopyUnder(1 - hash_seed)
         IN [on |-> TRUE, same |-> TRUE, adj |-> w.adj, elist |-> w.elist,
             eset |-> w.eset, contr |-> w.contr, dropped |-> 0, err |-> ""]

\* Lines 107-129 in the twin, with the random index i of this call.
TwinContracted(i) ==
    IF ~twin.on \/ ~twin.same \/ twin.err # "" THEN twin
    ELSE IF Len(twin.elist) <= 1 \/ i >= Len(twin.elist) THEN [twin EXCEPT !.same = FALSE]
    ELSE Contract(twin, i)

(***************************************************************************)
(* calculate_min_cut, lines 76-79: the state at the first line 80.         *)
(***************************************************************************)
InitCall(ls, k) ==
    LET graph == from_lines(ls) IN
    /\ graph.err = ""
    /\ lines = ls
    /\ original_graph = graph
    /\ self_vertex_adjacencies = graph.vertex_adjacencies
    /\ self_edges = graph.edges
    /\ stage_one_min_vertices = k
    /\ stage_two_max_iterations = StageTwoMaxIterations(k)
    /\ stage_one_results = None
    /\ stage_two_iterations = 1
    /\ vertex_adjacencies = <<>>
    /\ edges_list = <<>>
    /\ edges_set = {}
    /\ vertex_contractions = <<>>
    /\ ref = OwnObjects
    /\ pc = "start"
    /\ result = <<>>
    /\ result_ref = "none"
    /\ error = ""
    /\ error_args = <<>>
    /\ trial_discarded = 0
    /\ history_discarded = 0
    /\ cache_discarded = 0
    /\ PulseIdle

\* The calls of the model: their graphs, arguments, thresholds and iteration orders.
InitArguments ==
    /\ expected_min_cut_size \in 1..MaxCutSize
    /\ \E E \in InputEdgeSets, p \in FailureProbabilities :
           /\ hash_seed \in InputHashSeeds(E)
           /\ InitCall(InputLinesOf(E), StageOneMinVertices(p))

Init ==
    /\ InitArguments
    /\ twin = TwinOff

(***************************************************************************)
(* Lines 80-90: a trial starts from the cached state or from the graph.    *)
(***************************************************************************)
StartTrial ==
    /\ pc = "start"
    /\ LET w == IF stage_one_results # None THEN WorkingCopyOfCache
                ELSE WorkingCopyOfSelf
       IN /\ vertex_adjacencies' = w.adj
          /\ edges_list' = w.elist
          /\ edges_set' = w.eset
          /\ vertex_contractions' = w.contr
          /\ ref' = w.ref
    /\ trial_discarded' = 0
    /\ history_discarded' = IF stage_one_results # None THEN cache_discarded ELSE 0
    /\ twin' = TwinStarted
    /\ pc' = "inner"
    /\ UNCHANGED <<pulse_vars, lines, original_graph, hash_seed, self_vertex_adjacencies, self_edges,
                   expected_min_cut_size, stage_one_min_vertices,
                   stage_two_max_iterations, stage_one_results, stage_two_iterations,
                   result, result_ref, error, error_args, cache_discarded>>

(***************************************************************************)
(* Lines 91-129: one pass of the inner loop, with random index i.          *)
(***************************************************************************)
\* What a write of value new through a name does to the graph's or the cache's object.
WrittenThrough(tag, target, old, new) == IF tag = target THEN new ELSE old

\* Mutant of CountedIterations: line 95 is missing, stage-two trials are not counted.
UncountedIterations(at_threshold) ==
    IF at_threshold /\ stage_one_results = None THEN 1 ELSE stage_two_iterations

\* Lines 93-103: what stage_two_iterations becomes at the top of a pass.
CountedIterations(at_threshold) ==
    IF ~at_threshold THEN stage_two_iterations
    ELSE IF stage_one_results # None THEN stage_two_iterations + 1
    ELSE 1

\* Mutant of DiscardExhausted: line 104 with > for >=.
DiscardExhaustedLate(results, iterations) ==
    IF iterations > stage_two_max_iterations THEN None ELSE results

\* Lines 104-105: a cached state that has served its trials is dropped.
DiscardExhausted(results, iterations) ==
    IF iterations >= stage_two_max_iterations THEN None ELSE results

\* Mutant of InnerLoopCondition: line 91 with >= for >.
InnerLoopConditionAtLeastOne == Len(edges_list) >= 1

\* Mutant of InnerLoopCondition: line 91 with 2 for 1.
InnerLoopConditionMoreThanTwo == Len(edges_list) > 2

\* Line 91: while len(edges_list) > 1.
InnerLoopCondition == Len(edges_list) > 1

\* Mutant of AtThreshold: line 93 with <= for ==.
AtThresholdOrBelow == Cardinality(DOMAIN vertex_adjacencies) <= stage_one_min_vertices

\* Mutant of AtThreshold: line 93 with >= for ==.
AtThresholdOrAbove == Cardinality(DOMAIN vertex_adjacencies) >= stage_one_min_vertices

\* Line 93: if len(vertex_adjacencies) == stage_one_min_vertices.
AtThreshold == Cardinality(DOMAIN vertex_adjacencies) = stage_one_min_vertices

InnerStep(i) ==
    /\ pc = "inner"
    /\ InnerLoopCondition
    /\ i \in 0..(Len(edges_list) - 1)
    /\ LET at_threshold == AtThreshold
           fresh == at_threshold /\ stage_one_results = None
           cached == CachedCopyOfWorking
           \* lines 93-103
           results1 == IF fresh THEN cached.results ELSE stage_one_results
           ref1 == IF fresh THEN cached.ref ELSE ref
           iterations1 == CountedIterations(at_threshold)
           results2 == DiscardExhausted(results1, iterations1)
           \* lines 107-129
           w == Contract([adj |-> vertex_adjacencies, elist |-> edges_list,
                          eset |-> edges_set, contr |-> vertex_contractions,
                          dropped |-> 0, err |-> ""], i)
       IN /\ vertex_adjacencies' = w.adj
          /\ edges_list' = w.elist
          /\ edges_set' = w.eset
          /\ vertex_contractions' = w.contr
          /\ ref' = ref1
          /\ stage_two_iterations' = iterations1
          /\ stage_one_results' =
                 IF results2 = None THEN None
                 ELSE <<WrittenThrough(ref1.adj, "cache", results2[1], w.adj),
                        WrittenThrough(ref1.elist, "cache", results2[2], w.elist),
                        WrittenThrough(ref1.eset, "cache", results2[3], w.eset),
                        WrittenThrough(ref1.contr, "cache", results2[4], w.contr)>>
          /\ self_edges' = WrittenThrough(ref1.eset, "self", self_edges, w.eset)
          /\ self_vertex_adjacencies' =
                 WrittenThrough(ref1.adj, "self", self_vertex_adjacencies,
                                [v \in DOMAIN w.adj |-> CounterKeys(w.adj[v])])
          /\ cache_discarded' = IF fresh THEN history_discarded ELSE cache_discarded
          /\ trial_discarded' = trial_discarded + w.dropped
          /\ history_discarded' = history_discarded + w.dropped
          /\ twin' = TwinContracted(i)
          /\ error' = w.err
          /\ pc' = IF w.err # "" THEN "failed" ELSE "inner"
    /\ UNCHANGED <<pulse_vars, lines, original_graph, hash_seed, expected_min_cut_size, stage_one_min_vertices,
                   stage_two_max_iterations, result, result_ref, error_args>>

(***************************************************************************)
(* Lines 130-137: the end of a trial.                                      *)
(***************************************************************************)
\* Mutant of CutFound: line 136 with >= for ==.
CutFoundAtLeast(multiplicity) == multiplicity >= expected_min_cut_size

\* Mutant of CutFound: line 136 off by one.
CutFoundOneMore(multiplicity) == multiplicity = expected_min_cut_size + 1

\* Line 136: the trial succeeds when the last edge has the expected multiplicity.
CutFound(multiplicity) == multiplicity = expected_min_cut_size

\* Mutant of ReturnValue: line 137 with the comparison reversed.
ReturnValueLargerFirst(first_node, second_node) ==
    IF first_node > second_node
    THEN <<vertex_contractions[first_node], vertex_contractions[second_node]>>
    ELSE <<vertex_contractions[second_node], vertex_contractions[first_node]>>

\* Line 137: the two contraction records, the smaller node's first.
ReturnValue(first_node, second_node) ==
    IF first_node < second_node
    THEN <<vertex_contractions[first_node], vertex_contractions[second_node]>>
    ELSE <<vertex_contractions[second_node], vertex_contractions[first_node]>>

EndTrial ==
    /\ pc = "inner"
    /\ ~InnerLoopCondition
    /\ LET asserted == /\ Cardinality(DOMAIN vertex_adjacencies) = 2
                       /\ Cardinality(DOMAIN vertex_contractions) = 2
           popped == edges_list # <<>>
           first_node == edges_list[Len(edges_list)][1]
           second_node == edges_list[Len(edges_list)][2]
           found == /\ first_node \in DOMAIN vertex_adjacencies
                    /\ second_node \in DOMAIN vertex_adjacencies
           forth == CounterGet(vertex_adjacencies[first_node], second_node)
           back == CounterGet(vertex_adjacencies[second_node], first_node)
           recorded == /\ first_node \in DOMAIN vertex_contractions
                       /\ second_node \in DOMAIN vertex_contractions
           raised == IF ~asserted THEN "AssertionError"
                     ELSE IF ~popped THEN "IndexError"
                     ELSE IF ~found THEN "KeyError"
                     ELSE IF forth # back \/ ~recorded THEN "AssertionError"
                     ELSE ""
       IN /\ edges_list' = IF asserted /\ popped
                           THEN SubSeq(edges_list, 1, Len(edges_list) - 1)
                           ELSE edges_list
          /\ error' = raised
          /\ IF raised # ""
             THEN /\ pc' = "failed"
                  /\ UNCHANGED <<result, result_ref>>
             ELSE IF CutFound(forth)
             THEN /\ pc' = "returned"
                  /\ result' = ReturnValue(first_node, second_node)
                  /\ result_ref' = ref.contr
             ELSE /\ pc' = "start"
                  /\ UNCHANGED <<result, result_ref>>
    /\ UNCHANGED <<pulse_vars, lines, original_graph, hash_seed, self_vertex_adjacencies, self_edges,
                   expected_min_cut_size, stage_one_min_vertices,
                   stage_two_max_iterations, stage_one_results, stage_two_iterations,
                   vertex_adjacencies, edges_set, vertex_contractions, ref,
                   error_args, trial_discarded, history_discarded, cache_discarded, twin>>

Next ==
    \/ StartTrial
    \/ \E i \in 0..Len(edges_list) : InnerStep(i)
    \/ EndTrial

Spec == Init /\ [][Next]_vars

\* The same calls, each trial followed in its twin.
InitTwin ==
    /\ InitArguments
    /\ twin = TwinIdle

SpecTwin == InitTwin /\ [][Next]_vars

(***************************************************************************)
(* The worked example: the 13 lines of the doctest (lines 56-70), with the *)
(* vertex names numbered in string order:                                  *)
(*   bvb 1, cmg 2, frs 3, hfx 4, jqt 5, lhk 6, lsr 7, ntq 8, nvd 9,        *)
(*   pzl 10, qnr 11, rhn 12, rsh 13, rzs 14, xhk 15.                       *)
(* The call is calculate_min_cut(3) (line 70), with the program's          *)
(* threshold.  The example's random choices are explored at the two ends   *)
(* of the edge list only.                                                  *)
(***************************************************************************)
ExampleLines ==
    << Line(5, {12, 15, 9}),
       Line(13, {3, 10, 7}),
       Line(15, {4}),
       Line(2, {11, 9, 6, 1}),
       Line(12, {15, 1, 4}),
       Line(1, {15, 4}),
       Line(10, {7, 4, 9}),
       Line(11, {9}),
       Line(8, {5, 4, 1, 15}),
       Line(9, {6}),
       Line(7, {6}),
       Line(14, {11, 2, 7, 13}),
       Line(3, {11, 6, 7}) >>

ExampleCutSize == 3

InitExample ==
    /\ hash_seed \in HashSeeds
    /\ expected_min_cut_size = ExampleCutSize
    /\ InitCall(ExampleLines, StageOneMinVertices(MIN_CUT_STAGE_ONE_FAILURE_PROBABILITY))
    /\ twin = TwinOff

NextExample ==
    \/ StartTrial
    \/ \E i \in {0, Len(edges_list) - 1} : InnerStep(i)
    \/ EndTrial

SpecExample == InitExample /\ [][NextExample]_vars

(***************************************************************************)
(* The program from its text input: from_lines on the lines, then          *)
(* calculate_min_cut on the graph it returned (lines 159-160, and the      *)
(* doctest of lines 56-70).                                                *)
(***************************************************************************)
MaxLines == 3

\* Every declaration of up to three neighbours among a, b, c.
RegularLines == {Line(v, adj) : v \in 1..3, adj \in SUBSET (1..3) \ {{}}}

\* Lines the pattern accepts though they are not "name: name name ...".
LooseLines ==
    { <<"a", ":", "b">>,
      <<"a", ":", " ", " ", "b">>,
      <<"a", ":", " ", "b", " ", " ", "c", " ">>,
      <<"a", ":", " ">>,
      <<"a", "b", ":", " ", "a">>,
      <<"a", ":", " ", "a", "b", " ", "b">>,
      <<"b", ":", " ", "a", " ", "a">> }

\* Lines the pattern rejects.
MalformedLines ==
    { <<>>,
      <<"a">>,
      <<"a", ":">>,
      <<":", " ", "b">>,
      <<"a", " ", "b">>,
      <<"a", " ", ":", " ", "b">>,
      <<" ", "a", ":", " ", "b">>,
      <<"a", ":", " ", "B">> }

\* Declarations of one neighbour, and one rejected line.
ShortLines == {Line(v, {a}) : v, a \in 1..3} \cup {<<"a">>}

SequencesUpTo(S, n) == UNION {[1..m -> S] : m \in 0..n}

InputTexts ==
    SequencesUpTo(RegularLines \cup LooseLines \cup MalformedLines, 2)
        \cup SequencesUpTo(ShortLines, MaxLines)

InitLines ==
    /\ lines \in InputTexts
    /\ hash_seed = 0
    /\ expected_min_cut_size \in {1, 2}
    /\ self_vertex_adjacencies = <<>>
    /\ self_edges = {}
    /\ stage_one_min_vertices = 0
    /\ stage_two_max_iterations = 0
    /\ stage_one_results = None
    /\ stage_two_iterations = 0
    /\ vertex_adjacencies = <<>>
    /\ edges_list = <<>>
    /\ edges_set = {}
    /\ vertex_contractions = <<>>
    /\ ref = OwnObjects
    /\ pc = "from_lines"
    /\ result = <<>>
    /\ result_ref = "none"
    /\ error = ""
    /\ error_args = <<>>
    /\ trial_discarded = 0
    /\ history_discarded = 0
    /\ cache_discarded = 0
    /\ twin = TwinOff
    /\ original_graph = from_lines(<<>>)
    /\ PulseIdle

\* Line 159: from_lines returns the graph or raises.
FromLines ==
    /\ pc = "from_lines"
    /\ LET graph == from_lines(lines)
       IN /\ original_graph' = graph
          /\ error' = graph.err
          /\ error_args' = IF graph.err = "ValueError"
                           THEN <<graph.err_line, lines[graph.err_line]>>
                           ELSE <<>>
          /\ IF graph.err # ""
             THEN /\ pc' = "failed"
                  /\ UNCHANGED <<self_vertex_adjacencies, self_edges>>
             ELSE /\ pc' = "built"
                  /\ self_vertex_adjacencies' = graph.vertex_adjacencies
                  /\ self_edges' = graph.edges
    /\ UNCHANGED <<pulse_vars, lines, hash_seed, expected_min_cut_size, stage_one_min_vertices,
                   stage_two_max_iterations, stage_one_results, stage_two_iterations,
                   vertex_adjacencies, edges_list, edges_set, vertex_contractions, ref,
                   result, result_ref, trial_discarded, history_discarded,
                   cache_discarded, twin>>

\* Lines 160 and 76-79: the call of calculate_min_cut on the graph.
CalculateMinCut ==
    /\ pc = "built"
    /\ stage_one_min_vertices' = StageOneMinVertices(MIN_CUT_STAGE_ONE_FAILURE_PROBABILITY)
    /\ stage_two_max_iterations' =
           StageTwoMaxIterations(StageOneMinVertices(MIN_CUT_STAGE_ONE_FAILURE_PROBABILITY))
    /\ stage_one_results' = None
    /\ stage_two_iterations' = 1
    /\ pc' = "start"
    /\ UNCHANGED <<pulse_vars, lines, original_graph, hash_seed, self_vertex_adjacencies, self_edges,
                   expected_min_cut_size, vertex_adjacencies, edges_list, edges_set,
                   vertex_contractions, ref, result, result_ref, error, error_args,
                   trial_discarded, history_discarded, cache_discarded, twin>>

NextLines ==
    \/ FromLines
    \/ CalculateMinCut
    \/ Next

SpecLines == InitLines /\ [][NextLines]_vars

(***************************************************************************)
(* Vocabulary of the properties.                                           *)
(***************************************************************************)
\* The graph as from_lines built it, whatever the call has done since.
OriginalGraph == original_graph

OriginalVertices == DOMAIN OriginalGraph.vertex_adjacencies

OriginalEdges == OriginalGraph.edges

\* The number of edges of E between the vertex sets A and B.
CrossingIn(E, A, B) ==
    Cardinality({e \in E : \/ e[1] \in A /\ e[2] \in B
                           \/ e[1] \in B /\ e[2] \in A})

Crossing(A, B) == CrossingIn(OriginalEdges, A, B)

\* The bipartitions of V into two non-empty sets.
BipartitionsOf(V) == {<<A, V \ A>> : A \in SUBSET V \ {{}, V}}

Bipartitions == BipartitionsOf(OriginalVertices)

RECURSIVE ReachedFrom(_, _, _)
\* The vertices of S joined to those of R by edges of E inside S.
ReachedFrom(E, R, S) ==
    LET more == {v \in S \ R : \E u \in R : Pair(u, v) \in E}
    IN IF more = {} THEN R ELSE ReachedFrom(E, R \cup more, S)

ConnectedIn(E, S) == S # {} /\ ReachedFrom(E, {CHOOSE v \in S : TRUE}, S) = S

ConnectedSet(S) == ConnectedIn(OriginalEdges, S)

\* The bipartitions a trial can end in: k crossing edges, each side connected
\* (only adjacent vertices are ever merged).
TargetCutsOf(V, E, k) ==
    {P \in BipartitionsOf(V) : /\ CrossingIn(E, P[1], P[2]) = k
                               /\ ConnectedIn(E, P[1])
                               /\ ConnectedIn(E, P[2])}

TargetCuts ==
    LET graph == OriginalGraph
    IN TargetCutsOf(DOMAIN graph.vertex_adjacencies, graph.edges, expected_min_cut_size)

Working == pc = "inner"

LiveVertices == DOMAIN vertex_adjacencies

Multiplicity(u, v) == CounterGet(vertex_adjacencies[u], v)

(***************************************************************************)
(* C1: whenever calculate_min_cut returns, the two returned sets are       *)
(* non-empty, disjoint, and their union is the vertex set of the graph.    *)
(***************************************************************************)
C1_ReturnsBipartition ==
    pc = "returned" =>
        /\ result[1] # {}
        /\ result[2] # {}
        /\ result[1] \cap result[2] = {}
        /\ result[1] \cup result[2] = OriginalVertices

C1_Witness ==
    /\ pc = "returned"
    /\ Cardinality(result[1]) >= 2
    /\ Cardinality(result[2]) >= 2

(***************************************************************************)
(* C2: whenever calculate_min_cut returns (A, B), exactly                  *)
(* expected_min_cut_size edges of the original graph run between A and B.  *)
(***************************************************************************)
C2_ReturnedCutHasExpectedSize ==
    pc = "returned" => Crossing(result[1], result[2]) = expected_min_cut_size

C2_Witness ==
    /\ pc = "returned"
    /\ expected_min_cut_size >= 2
    /\ Cardinality(result[1]) >= 2
    /\ Cardinality(result[2]) >= 2

(***************************************************************************)
(* C4: whenever calculate_min_cut returns (A, B), no bipartition of the    *)
(* vertex set has fewer crossing edges than (A, B).  This fails when the   *)
(* caller's expected size is not the minimum.  As amended: when            *)
(* expected_min_cut_size is the size of a minimum cut of the graph (no     *)
(* bipartition has fewer crossing edges than expected_min_cut_size), no    *)
(* bipartition has fewer crossing edges than the returned (A, B).          *)
(***************************************************************************)
ReturnedCutIsMinimum ==
    \A P \in Bipartitions : Crossing(P[1], P[2]) >= Crossing(result[1], result[2])

ExpectedSizeIsMinimum ==
    \A P \in Bipartitions : Crossing(P[1], P[2]) >= expected_min_cut_size

C4_ReturnedCutIsMinimum == pc = "returned" => ReturnedCutIsMinimum

C4_MinimumWhenExpectedIsMinimum ==
    (pc = "returned" /\ ExpectedSizeIsMinimum) => ReturnedCutIsMinimum

C4_Witness ==
    /\ pc = "returned"
    /\ ExpectedSizeIsMinimum
    /\ expected_min_cut_size >= 2
    /\ Cardinality(OriginalVertices) >= 4

(***************************************************************************)
(* C7: in every working state of a trial the contraction records of the    *)
(* live vertices are pairwise disjoint, their union is the original vertex *)
(* set, and vertex_contractions and vertex_adjacencies have the same live  *)
(* vertices.                                                               *)
(***************************************************************************)
C7_ContractionsPartitionVertices ==
    Working =>
        /\ DOMAIN vertex_contractions = LiveVertices
        /\ \A u, v \in DOMAIN vertex_contractions :
               u # v => vertex_contractions[u] \cap vertex_contractions[v] = {}
        /\ UNION {vertex_contractions[v] : v \in DOMAIN vertex_contractions}
               = OriginalVertices

C7_Witness ==
    /\ Working
    /\ stage_one_results # None
    /\ Cardinality(LiveVertices) = 2
    /\ \A v \in LiveVertices : Cardinality(vertex_contractions[v]) >= 2

(***************************************************************************)
(* C8: in every working state between contractions the adjacency map is    *)
(* symmetric: B is a neighbour of A iff A is a neighbour of B, with the    *)
(* same multiplicity in both directions.                                   *)
(***************************************************************************)
C8_AdjacencySymmetric ==
    Working =>
        \A a, b \in LiveVertices :
            /\ b \in CounterKeys(vertex_adjacencies[a])
                   <=> a \in CounterKeys(vertex_adjacencies[b])
            /\ Multiplicity(a, b) = Multiplicity(b, a)

C8_Witness ==
    /\ Working
    /\ Cardinality(LiveVertices) >= 3
    /\ \E a, b \in LiveVertices : Multiplicity(a, b) >= 2

(***************************************************************************)
(* C10: calculate_min_cut never changes the graph it is called on: every   *)
(* trial works on its own objects, and the returned sets are not the       *)
(* graph's own sets.                                                       *)
(***************************************************************************)
C10_GraphNotMutated ==
    /\ self_vertex_adjacencies = OriginalGraph.vertex_adjacencies
    /\ self_edges = OriginalEdges
    /\ ref = OwnObjects
    /\ pc = "returned" => result_ref = "own"

C10_Witness ==
    /\ pc = "returned"
    /\ stage_two_iterations >= 2
    /\ self_edges # edges_set

(***************************************************************************)
(* C9: after every contraction of a trial, half the sum of all adjacency   *)
(* multiplicities over the live vertices equals the original edge count    *)
(* minus the multiplicity discarded as self-loops so far in that trial.    *)
(* This fails in a trial that starts from the cached stage-one state,      *)
(* which has already lost the self-loops of stage one.  As amended: ...    *)
(* minus the multiplicity discarded as self-loops so far in that trial     *)
(* and, for a trial started from the cached stage-one state, by the        *)
(* contractions that produced that state.                                  *)
(***************************************************************************)
TotalMultiplicity ==
    SumOver(LiveVertices, [v \in LiveVertices |-> CounterTotal(vertex_adjacencies[v])])

C9_MassLessTrialSelfLoops ==
    Working => TotalMultiplicity = 2 * (Cardinality(OriginalEdges) - trial_discarded)

C9_MassLessAllSelfLoops ==
    Working => TotalMultiplicity = 2 * (Cardinality(OriginalEdges) - history_discarded)

C9_Witness ==
    /\ Working
    /\ stage_one_results # None
    /\ trial_discarded >= 2
    /\ history_discarded > trial_discarded

(***************************************************************************)
(* C5: if the graph has no cut of exactly expected_min_cut_size edges, the *)
(* call never returns and never fails.                                     *)
(***************************************************************************)
NoCutOfExpectedSize ==
    \A P \in Bipartitions : Crossing(P[1], P[2]) # expected_min_cut_size

C5_NoCutNeitherReturnsNorFails ==
    NoCutOfExpectedSize => pc \notin {"returned", "failed"}

(***************************************************************************)
(* C3: on the worked example with target cut size 3, every call that       *)
(* returns, returns {bvb, hfx, jqt, ntq, rhn, xhk} first and               *)
(* {cmg, frs, lhk, lsr, nvd, pzl, qnr, rsh, rzs} second: sizes 6 and 9,    *)
(* product 54.  The claim calls the example a 13-vertex graph; its 13      *)
(* lines name 15 vertices.  As amended: the same for the 15-vertex graph   *)
(* built from the 13 lines.                                                *)
(***************************************************************************)
ExampleFirst == {1, 4, 5, 8, 12, 15}

ExampleSecond == {2, 3, 6, 7, 9, 10, 11, 13, 14}

ReturnsDoctestPartition ==
    pc = "returned" =>
        /\ result = <<ExampleFirst, ExampleSecond>>
        /\ Cardinality(result[1]) = 6
        /\ Cardinality(result[2]) = 9
        /\ Cardinality(result[1]) * Cardinality(result[2]) = 54
        /\ TargetCuts = {<<ExampleFirst, ExampleSecond>>, <<ExampleSecond, ExampleFirst>>}

PromisingFor(T, contr) ==
    \E P \in T : \A v \in DOMAIN contr : contr[v] \subseteq P[1] \/ contr[v] \subseteq P[2]

Promising(contr) == PromisingFor(TargetCuts, contr)

\* The inner loop is at n live vertices and some edge it may pick is promising.
PromisingChoice(n) ==
    /\ Working
    /\ Len(edges_list) > 1
    /\ Cardinality(LiveVertices) = n
    /\ LET T == TargetCuts
       IN \E j \in 1..Len(edges_list) :
              PromisingFor(T, MergeContractions(vertex_contractions,
                                                edges_list[j][1], edges_list[j][2]))

\* A pass of the inner loop at n live vertices that picked a promising edge.
PromisingStep(n) ==
    /\ Working
    /\ Cardinality(LiveVertices) = n
    /\ pc' = "inner"
    /\ Cardinality(DOMAIN vertex_adjacencies') = n - 1
    /\ Promising(vertex_contractions')

FairChoices ==
    \A n \in 3..MaxVertices : []<>PromisingChoice(n) => []<><<PromisingStep(n)>>_vars

InitFair ==
    /\ Init
    /\ ConnectedSet(OriginalVertices)
    /\ TargetCuts # {}

\* Weak fairness of the inner loop's pass, WF_vars(\E i : InnerStep(i)), written
\* by what enables it: the loop does not stay for ever where a pass is possible.
InnerLoopRuns == []<>~(Working /\ Len(edges_list) > 1)

SpecFair ==
    /\ InitFair
    /\ [][Next]_vars
    /\ WF_vars(StartTrial)
    /\ WF_vars(EndTrial)
    /\ InnerLoopRuns
    /\ FairChoices

(***************************************************************************)
(* C6: on a connected graph that has a cut of the expected size with both  *)
(* sides connected, the call eventually returns when the random choices    *)
(* are fair; no reachable state, cached stage-one state included, makes    *)
(* the return impossible for ever.                                         *)
(***************************************************************************)
C6_EventuallyReturns == <>(pc = "returned")

\* A cached stage-one state that no trial started from it can return from.
C6_Witness ==
    /\ Working
    /\ stage_one_results # None
    /\ ~Promising(stage_one_results[4])
    /\ stage_two_iterations >= 2

(***************************************************************************)
(* Vocabulary of the properties of from_lines.                             *)
(***************************************************************************)
\* from_lines raised: the call ended before calculate_min_cut began.
FromLinesRaised == pc = "failed" /\ stage_two_iterations = 0

\* from_lines has just returned the graph.
FromLinesReturned == pc = "built"

Matches(line) == FullMatch(line) # <<>>

LeftName(line) == FullMatch(line)[1]

Tokens(line) ==
    LET tokens == Split(FullMatch(line)[2]) IN {tokens[j] : j \in 1..Len(tokens)}

NamesOfLine(line) == {LeftName(line)} \cup Tokens(line)

\* The unordered pairs of names a line declares adjacent.
PairsOfLine(line) == {{LeftName(line), t} : t \in Tokens(line)}

ListsItself(line) == LeftName(line) \in Tokens(line)

\* Every line, given to from_lines alone, is accepted.
AcceptedAlone(ls) == \A i \in 1..Len(ls) : from_lines(<<ls[i]>>).err = ""

RECURSIVE NamesInOrder(_)
NamesInOrder(S) ==
    IF S = {} THEN <<>>
    ELSE LET m == CHOOSE x \in S : \A y \in S : x = y \/ NameLess(x, y)
         IN <<m>> \o NamesInOrder(S \ {m})

RECURSIVE JoinedNames(_)
JoinedNames(ns) == IF ns = <<>> THEN <<>> ELSE <<" ">> \o Head(ns) \o JoinedNames(Tail(ns))

\* The line "name: t1 t2 ..." ("name: " when there is no neighbour).
DeclarationLine(name, tokens) ==
    name \o <<":">> \o (IF tokens = {} THEN <<" ">> ELSE JoinedNames(NamesInOrder(tokens)))

RECURSIVE UnionedFrom(_, _, _)
\* One line per declared name, in order of first declaration, with the union of
\* all that the lines of ls declare for it.
UnionedFrom(ls, i, done) ==
    IF i > Len(ls) THEN <<>>
    ELSE LET name == LeftName(ls[i])
         IN IF name \in done THEN UnionedFrom(ls, i + 1, done)
            ELSE <<DeclarationLine(name,
                       UNION {Tokens(ls[j]) : j \in {n \in 1..Len(ls) : LeftName(ls[n]) = name}})>>
                 \o UnionedFrom(ls, i + 1, done \cup {name})

Unioned(ls) == UnionedFrom(ls, 1, {})

\* Line i declares nothing that the other lines do not declare, from either end.
Redundant(ls, i) ==
    LET others == {j \in 1..Len(ls) : j # i}
    IN /\ PairsOfLine(ls[i]) \subseteq UNION {PairsOfLine(ls[j]) : j \in others}
       /\ NamesOfLine(ls[i]) \subseteq UNION {NamesOfLine(ls[j]) : j \in others}

(***************************************************************************)
(* C11: construction is idempotent under repeated declarations.  When each *)
(* line is acceptable on its own, from_lines does not raise; the graph it  *)
(* returns has the vertex_adjacencies and edges of the graph built from    *)
(* the lines with the declarations of each vertex unioned into one line;   *)
(* leaving out a line that only repeats what other lines declare, from     *)
(* either end, gives the same graph; and edges has one pair for each       *)
(* unordered pair of names declared adjacent, however often declared.      *)
(***************************************************************************)
C11_RepeatedDeclarationsUnion ==
    AcceptedAlone(lines) =>
        /\ ~FromLinesRaised
        /\ FromLinesReturned =>
               /\ LET unioned == from_lines(Unioned(lines))
                  IN /\ unioned.err = ""
                     /\ self_vertex_adjacencies = unioned.vertex_adjacencies
                     /\ self_edges = unioned.edges
               /\ \A i \in 1..Len(lines) :
                      Redundant(lines, i) =>
                          LET fewer == from_lines(ListWithout(lines, i))
                          IN /\ self_vertex_adjacencies = fewer.vertex_adjacencies
                             /\ self_edges = fewer.edges
               /\ Cardinality(self_edges) =
                      Cardinality(UNION {PairsOfLine(lines[i]) : i \in 1..Len(lines)})

\* 'a: b' then 'a: b c', the graph of 'a: b c'.
C11_Witness ==
    /\ FromLinesReturned
    /\ lines = <<Line(1, {2}), Line(1, {2, 3})>>
    /\ self_edges = {<<1, 2>>, <<1, 3>>}

(***************************************************************************)
(* C12: after from_lines, every vertex named on either side of any line    *)
(* is a vertex of the graph, also one that is only ever named as a         *)
(* neighbour; each declared edge is recorded from both ends, and b is in   *)
(* the adjacencies of a iff a is in those of b; and edges is exactly the   *)
(* set of the pairs (smaller, larger) of adjacent vertices.                *)
(***************************************************************************)
C12_NamedVerticesSymmetricEdges ==
    FromLinesReturned =>
        LET names == NamesIn(lines)
            V == DOMAIN self_vertex_adjacencies
        IN /\ \A n \in names : VertexOf(n, names) \in V
           /\ \A i \in 1..Len(lines) : \A t \in Tokens(lines[i]) :
                  LET a == VertexOf(LeftName(lines[i]), names)
                      b == VertexOf(t, names)
                  IN /\ b \in self_vertex_adjacencies[a]
                     /\ a \in self_vertex_adjacencies[b]
           /\ \A a, b \in V :
                  b \in self_vertex_adjacencies[a] <=> a \in self_vertex_adjacencies[b]
           /\ self_edges = {e \in V \X V : e[1] < e[2] /\ e[2] \in self_vertex_adjacencies[e[1]]}

\* Two vertices that no line declares, each named as a neighbour only.
C12_Witness ==
    /\ FromLinesReturned
    /\ Cardinality(NamesIn(lines) \ {LeftName(lines[i]) : i \in 1..Len(lines)}) = 2
    /\ Cardinality(self_edges) >= 2

(***************************************************************************)
(* C13: an input line in which a vertex lists itself as adjacent is        *)
(* rejected at construction: from_lines raises, no graph is produced, no   *)
(* trial starts, and no graph that reaches the contraction loop has a      *)
(* self-loop.                                                              *)
(***************************************************************************)
SomeLineListsItself ==
    \E i \in 1..Len(lines) : Matches(lines[i]) /\ ListsItself(lines[i])

NoGraph == self_vertex_adjacencies = <<>> /\ self_edges = {}

NoTrialBegun ==
    /\ vertex_adjacencies = <<>>
    /\ edges_list = <<>>
    /\ edges_set = {}
    /\ vertex_contractions = <<>>
    /\ stage_two_iterations = 0

C13_SelfLoopRejected ==
    /\ SomeLineListsItself =>
           /\ pc \in {"from_lines", "failed"}
           /\ pc = "failed" => FromLinesRaised /\ error \in {"AssertionError", "ValueError"}
           /\ NoGraph
           /\ NoTrialBegun
    /\ pc \in {"built", "start", "inner", "returned"} =>
           /\ \A e \in self_edges : e[1] # e[2]
           /\ \A v \in DOMAIN self_vertex_adjacencies : v \notin self_vertex_adjacencies[v]

\* The second line lists its own vertex among others; the first line was accepted.
C13_Witness ==
    /\ FromLinesRaised
    /\ error = "AssertionError"
    /\ Len(lines) = 2
    /\ Matches(lines[1]) /\ ~ListsItself(lines[1])
    /\ Matches(lines[2]) /\ ListsItself(lines[2]) /\ Cardinality(Tokens(lines[2])) >= 2
    /\ NoGraph

(***************************************************************************)
(* C14: a line that does not match the pattern makes from_lines fail at    *)
(* the first such line, with an error that carries that line's number and  *)
(* content, before any later line is processed and before any randomized   *)
(* work; no graph is returned.  This fails when an earlier line lists its  *)
(* own vertex: from_lines then fails at that earlier line, with an         *)
(* AssertionError that carries nothing.  As amended: ... makes from_lines  *)
(* fail; at the first such line, with a ValueError that carries that       *)
(* line's number and content, unless an earlier line lists its own vertex  *)
(* as adjacent, and then at the first line that does so, with an           *)
(* AssertionError that carries nothing; in both cases before any later     *)
(* line is processed and before any randomized work, and no graph is       *)
(* returned.                                                               *)
(***************************************************************************)
SomeLineMalformed == \E i \in 1..Len(lines) : ~Matches(lines[i])

FirstMalformed == CHOOSE i \in 1..Len(lines) :
                      ~Matches(lines[i]) /\ \A j \in 1..(i - 1) : Matches(lines[j])

SelfListedBeforeMalformed ==
    \E j \in 1..(FirstMalformed - 1) : ListsItself(lines[j])

RaisedAtFirstMalformed ==
    /\ error = "ValueError"
    /\ error_args = <<FirstMalformed, lines[FirstMalformed]>>

C14_FailsAtFirstMalformed ==
    SomeLineMalformed =>
        /\ pc \in {"from_lines", "failed"}
        /\ pc = "failed" => FromLinesRaised /\ RaisedAtFirstMalformed
        /\ NoGraph
        /\ NoTrialBegun

C14_FailsAtFirstRejected ==
    SomeLineMalformed =>
        /\ pc \in {"from_lines", "failed"}
        /\ pc = "failed" =>
               /\ FromLinesRaised
               /\ IF SelfListedBeforeMalformed
                  THEN error = "AssertionError" /\ error_args = <<>>
                  ELSE RaisedAtFirstMalformed
        /\ NoGraph
        /\ NoTrialBegun

\* The second of three lines does not match, the third would trip the assertion.
C14_Witness ==
    /\ FromLinesRaised
    /\ Len(lines) = 3
    /\ error_args = <<2, lines[2]>>
    /\ Matches(lines[3]) /\ ListsItself(lines[3])

(***************************************************************************)
(* C15: on a graph of exactly two vertices and one edge, with target cut   *)
(* size 1, the first trial goes from its start straight to the return,     *)
(* without a pass of the inner loop: no contraction is made, and the call  *)
(* returns the two singleton sets, the smaller vertex's first.             *)
(***************************************************************************)
TwoVertexCall ==
    /\ Cardinality(OriginalVertices) = 2
    /\ Cardinality(OriginalEdges) = 1
    /\ expected_min_cut_size = 1

C15_TwoVerticesFirstTrial ==
    [][TwoVertexCall =>
           /\ pc = "start" =>
                  /\ pc' = "inner"
                  /\ vertex_contractions' = [v \in OriginalVertices |-> {v}]
           /\ pc = "inner" =>
                  /\ pc' = "returned"
                  /\ result' = <<{1}, {2}>>
                  /\ vertex_contractions' = vertex_contractions
                  /\ vertex_adjacencies' = vertex_adjacencies
                  /\ error' = ""]_vars

C15_Witness ==
    /\ pc = "returned"
    /\ TwoVertexCall
    /\ result = <<{1}, {2}>>
    /\ stage_two_iterations = 1

(***************************************************************************)
(* C16: determinism.  Two runs of calculate_min_cut on the same graph that *)
(* receive the same random indices make the same contractions in the same  *)
(* order and return the same ordered pair of sets: whatever the process    *)
(* the second run is in, through every trial it has followed with the same *)
(* indices its contraction records are those of the first run, it ends the *)
(* trial as the first run does, and it returns what the first run returns. *)
(***************************************************************************)
TwinFollows == twin.on /\ twin.same

\* Lines 130-137 in the twin: <<>> when the trial does not return.
TwinResult ==
    IF Cardinality(DOMAIN twin.adj) # 2 \/ twin.elist = <<>> THEN <<>>
    ELSE LET edge == twin.elist[Len(twin.elist)]
         IN IF CutFound(CounterGet(twin.adj[edge[1]], edge[2]))
            THEN <<twin.contr[edge[1]], twin.contr[edge[2]]>>
            ELSE <<>>

C16_SameIndicesSameRun ==
    TwinFollows =>
        /\ pc = "inner" => twin.contr = vertex_contractions
        /\ pc = "returned" => TwinResult = result
        /\ pc = "start" => TwinResult = <<>>

(***************************************************************************)
(* C17: contracting the edge (supernode, subnode) has exactly this effect  *)
(* on the adjacency map: subnode stops being a live vertex, the edge       *)
(* between the two endpoints disappears, for every other live vertex w the *)
(* new multiplicity between supernode and w is the old multiplicity of     *)
(* (supernode, w) plus the old multiplicity of (subnode, w), and the       *)
(* multiplicity between two vertices that are neither endpoint is          *)
(* unchanged.                                                              *)
(***************************************************************************)
MultiplicityIn(adj, u, v) == CounterGet(adj[u], v)

\* A pass of the inner loop that went through.
ContractionDone ==
    /\ pc = "inner"
    /\ pc' = "inner"
    /\ vertex_adjacencies' # vertex_adjacencies

ContractionEffect(supernode, subnode) ==
    LET old == vertex_adjacencies
        new == vertex_adjacencies'
        others == DOMAIN old \ {supernode, subnode}
    IN /\ DOMAIN new = DOMAIN old \ {subnode}
       /\ \A v \in DOMAIN new : subnode \notin CounterKeys(new[v])
       /\ supernode \notin CounterKeys(new[supernode])
       /\ \A w \in others :
              /\ MultiplicityIn(new, supernode, w) =
                     MultiplicityIn(old, supernode, w) + MultiplicityIn(old, subnode, w)
              /\ MultiplicityIn(new, w, supernode) =
                     MultiplicityIn(old, w, supernode) + MultiplicityIn(old, w, subnode)
       /\ \A u, w \in others : MultiplicityIn(new, u, w) = MultiplicityIn(old, u, w)

C17_ContractionEffect ==
    [][ContractionDone =>
           \E edge \in edges_set :
               /\ vertex_contractions'[edge[1]] =
                      vertex_contractions[edge[1]] \cup vertex_contractions[edge[2]]
               /\ ContractionEffect(edge[1], edge[2])]_vars

\* After two contractions: a vertex joined to the supernode by a summed multiplicity.
C17_Witness ==
    /\ Working
    /\ Cardinality(OriginalVertices) = 4
    /\ Cardinality(LiveVertices) = 2
    /\ trial_discarded = 2
    /\ \E a, b \in LiveVertices : Multiplicity(a, b) = 3

(***************************************************************************)
(* C18: in every working state between contractions no live vertex is its  *)
(* own neighbour, every neighbour key is a live vertex, and every recorded *)
(* multiplicity is an integer >= 1.                                        *)
(***************************************************************************)
C18_AdjacencyWellFormed ==
    Working =>
        \A v \in LiveVertices :
            /\ v \notin CounterKeys(vertex_adjacencies[v])
            /\ CounterKeys(vertex_adjacencies[v]) \subseteq LiveVertices
            /\ \A j \in 1..Len(vertex_adjacencies[v]) :
                   /\ vertex_adjacencies[v][j][2] \in Nat
                   /\ vertex_adjacencies[v][j][2] >= 1
            \* a Counter holds each key once
            /\ \A j, n \in 1..Len(vertex_adjacencies[v]) :
                   vertex_adjacencies[v][j][1] = vertex_adjacencies[v][n][1] => j = n

\* A trial from the cached state, after a contraction that merged two neighbours
\* of a third vertex.
C18_Witness ==
    /\ Working
    /\ stage_two_iterations >= 2
    /\ trial_discarded >= 1
    /\ Cardinality(LiveVertices) >= 3
    /\ \E a, b \in LiveVertices : Multiplicity(a, b) >= 2

(***************************************************************************)
(* C19: in every working state between contractions edges_list has no     *)
(* duplicate, edges_list and edges_set hold the same pairs, every pair is  *)
(* stored as (smaller, larger), and the pairs are exactly the unordered    *)
(* pairs of distinct live vertices with multiplicity >= 1 in the adjacency *)
(* map; and no list.remove (ValueError) or set.remove (KeyError) of a      *)
(* contraction ever fails on a missing edge.                               *)
(***************************************************************************)
C19_EdgeListMatchesEdgeSet ==
    /\ error \notin {"ValueError", "KeyError"}
    /\ Working =>
           /\ \A j, n \in 1..Len(edges_list) : edges_list[j] = edges_list[n] => j = n
           /\ {edges_list[j] : j \in 1..Len(edges_list)} = edges_set
           /\ \A e \in edges_set : e[1] < e[2]
           /\ edges_set = {e \in LiveVertices \X LiveVertices :
                              e[1] < e[2] /\ Multiplicity(e[1], e[2]) >= 1}

\* Contractions have merged parallel edges: fewer pairs are left than edges.
C19_Witness ==
    /\ Working
    /\ Len(edges_list) >= 2
    /\ Cardinality(OriginalEdges) - Len(edges_list) >= 3

(***************************************************************************)
(* C20: the edge to contract is picked uniformly among the distinct vertex *)
(* pairs of the current edge set, not weighted by multiplicity.  randrange *)
(* draws each index of edges_list with the same chance; whenever the inner *)
(* loop is to pick, each pair of edges_set is picked by exactly one of the *)
(* Len(edges_list) = Cardinality(edges_set) indices, whatever its          *)
(* multiplicity, and each index picks a pair of edges_set (the pass of the *)
(* loop has no guard but the index's range).                               *)
(***************************************************************************)
\* The values randrange(len(edges_list)) can return (line 107).
RandRange == 0..(Len(edges_list) - 1)

\* The chance that line 107 pops edge e: <<favourable indices, all indices>>.
PickChance(e) ==
    <<Cardinality({i \in RandRange : edges_list[i + 1] = e}), Cardinality(RandRange)>>

C20_UniformOverDistinctPairs ==
    (Working /\ InnerLoopCondition) =>
        /\ \A e \in edges_set : PickChance(e) = <<1, Cardinality(edges_set)>>
        /\ \A i \in RandRange : edges_list[i + 1] \in edges_set

\* The loop is to pick among pairs of multiplicity 1 and of multiplicity 2 or more.
C20_Witness ==
    /\ Working
    /\ InnerLoopCondition
    /\ \E e \in edges_set : Multiplicity(e[1], e[2]) = 1
    /\ \E e \in edges_set : Multiplicity(e[1], e[2]) >= 2

(***************************************************************************)
(* C21: every trial terminates.  Each contraction reduces the number of    *)
(* live vertices by exactly one; and on a connected graph the inner loop   *)
(* goes on exactly while more than two vertices are live and stops with    *)
(* exactly two live vertices and exactly one remaining distinct edge, so   *)
(* that from n live vertices it makes exactly n - 2 contractions.          *)
(***************************************************************************)
ConnectedGraph == ConnectedSet(OriginalVertices)

LoopStopsAtTwoVertices ==
    (Working /\ ConnectedGraph) =>
        /\ Cardinality(LiveVertices) >= 2
        /\ InnerLoopCondition <=> Cardinality(LiveVertices) > 2
        /\ ~InnerLoopCondition => Len(edges_list) = 1 /\ Cardinality(edges_set) = 1

ContractionRemovesOneVertex ==
    ContractionDone =>
        Cardinality(DOMAIN vertex_adjacencies') = Cardinality(LiveVertices) - 1

\* On a connected graph a pass of the loop always goes through.
PassGoesThrough ==
    (Working /\ ConnectedGraph /\ InnerLoopCondition) =>
        (vertex_adjacencies' # vertex_adjacencies /\ pc' = "inner")

C21_TrialTerminates ==
    /\ []LoopStopsAtTwoVertices
    /\ [][ContractionRemovesOneVertex /\ PassGoesThrough]_vars

\* The loop has stopped after two contractions from the graph's four vertices.
C21_Witness ==
    /\ Working
    /\ ConnectedGraph
    /\ stage_one_results = None
    /\ Cardinality(OriginalVertices) = 4
    /\ Cardinality(LiveVertices) = 2
    /\ Len(edges_list) = 1

(***************************************************************************)
(* C22: on a connected graph of at least two vertices built by from_lines, *)
(* no assertion of calculate_min_cut fails in any trial: no exception is   *)
(* raised; in every working state no live vertex is its own neighbour and  *)
(* the two directions of every multiplicity agree; and when the inner loop *)
(* has stopped, exactly two live vertices and two contraction records      *)
(* remain, both the endpoints of the last edge.                            *)
(***************************************************************************)
DirectionsAgree ==
    \A v \in LiveVertices : \A j \in 1..Len(vertex_adjacencies[v]) :
        LET u == vertex_adjacencies[v][j][1]
        IN /\ u # v
           /\ u \in LiveVertices
           /\ CounterGet(vertex_adjacencies[u], v) = vertex_adjacencies[v][j][2]

EndAssertionsHold ==
    /\ Cardinality(DOMAIN vertex_adjacencies) = 2
    /\ Cardinality(DOMAIN vertex_contractions) = 2
    /\ edges_list # <<>>
    /\ LET last_edge == edges_list[Len(edges_list)]
       IN /\ DOMAIN vertex_adjacencies = {last_edge[1], last_edge[2]}
          /\ DOMAIN vertex_contractions = {last_edge[1], last_edge[2]}
          /\ CounterGet(vertex_adjacencies[last_edge[1]], last_edge[2])
                 = CounterGet(vertex_adjacencies[last_edge[2]], last_edge[1])

C22_NoAssertionFails ==
    (ConnectedGraph /\ Cardinality(OriginalVertices) >= 2) =>
        /\ pc # "failed"
        /\ error = ""
        /\ Working => DirectionsAgree
        /\ (Working /\ ~InnerLoopCondition) => EndAssertionsHold

\* A trial on a connected graph of four vertices went past every assertion and
\* ended without the expected size.
C22_Witness ==
    /\ ConnectedGraph
    /\ Cardinality(OriginalVertices) = 4
    /\ pc = "start"
    /\ edges_list = <<>>
    /\ Cardinality(DOMAIN vertex_adjacencies) = 2
    /\ error = ""

(***************************************************************************)
(* C23: stage one.  The threshold of the program is ceil(2 / 0.01) = 200.  *)
(* A pass of the inner loop caches the working state (adjacency, edge      *)
(* list, edge set, contraction records, as they are before the pass        *)
(* contracts) when, and only when, the live vertex count equals the        *)
(* threshold and no cache exists; such a pass belongs to a trial that       *)
(* started from the graph; every cached state has exactly as many live     *)
(* vertices as the threshold; and an existing cache is never overwritten,  *)
(* it is only ever dropped.                                                *)
(***************************************************************************)
WorkingState == <<vertex_adjacencies, edges_list, edges_set, vertex_contractions>>

\* A pass of the inner loop (lines 92-129) is taken.
PassTaken == Working /\ InnerLoopCondition /\ vertex_adjacencies' # vertex_adjacencies

NoCache == stage_one_results = None

LiveAtThreshold == Cardinality(LiveVertices) = stage_one_min_vertices

\* The trial started from the graph: every multiplicity it deleted, it deleted
\* since the graph.
StartedFromGraph == history_discarded = trial_discarded

CachedWhenAtThreshold ==
    (PassTaken /\ NoCache /\ LiveAtThreshold) =>
        /\ stage_one_results' = WorkingState
        /\ stage_two_iterations' = 1
        /\ StartedFromGraph

NotCachedOtherwise ==
    (PassTaken /\ ~(NoCache /\ LiveAtThreshold)) =>
        stage_one_results' \in {stage_one_results, None}

CacheOnlyDropped ==
    ~NoCache => stage_one_results' \in {stage_one_results, None}

CacheHasThresholdVertices ==
    ~NoCache =>
        /\ Cardinality(DOMAIN stage_one_results[1]) = stage_one_min_vertices
        /\ DOMAIN stage_one_results[4] = DOMAIN stage_one_results[1]

C23_StageOneCaching ==
    /\ StageOneMinVertices(MIN_CUT_STAGE_ONE_FAILURE_PROBABILITY) = 200
    /\ []CacheHasThresholdVertices
    /\ [][CachedWhenAtThreshold /\ NotCachedOtherwise /\ CacheOnlyDropped]_vars

\* A cache made by a trial that had contracted once before it reached the threshold.
C23_Witness ==
    /\ ~NoCache
    /\ Working
    /\ Cardinality(OriginalVertices) = stage_one_min_vertices + 1
    /\ Cardinality(LiveVertices) = stage_one_min_vertices - 1
    /\ stage_two_iterations = 1

(***************************************************************************)
(* C24: stage two.  While a cached stage-one state exists, every new trial *)
(* starts from a working state equal to the cached state, and not from the *)
(* graph; without a cache it starts from the working state of the original *)
(* graph; so the start state of a trial is a function of the original      *)
(* graph and the cache alone.  A trial's start and its contractions leave  *)
(* an existing cached state as it is, unless the pass drops it.            *)
(***************************************************************************)
TrialStarts == pc = "start" /\ pc' = "inner"

\* The working state of the original graph (lines 87-90).
GraphWorkingState ==
    << [v \in OriginalVertices |->
           CounterOf(VerticesInOrder(OriginalGraph.vertex_adjacencies[v], hash_seed))],
       EdgesInOrder(OriginalEdges, hash_seed),
       OriginalEdges,
       [v \in OriginalVertices |-> {v}] >>

StartState == IF NoCache THEN GraphWorkingState ELSE stage_one_results

StartsFromCacheOrGraph ==
    TrialStarts =>
        /\ <<vertex_adjacencies', edges_list', edges_set', vertex_contractions'>> = StartState
        /\ stage_one_results' = stage_one_results

CacheKeptByContractions ==
    (Working /\ ~NoCache /\ stage_one_results' # None) =>
        stage_one_results' = stage_one_results

C24_StageTwoStartsFromCache ==
    [][StartsFromCacheOrGraph /\ CacheKeptByContractions]_vars

\* A trial that started from the cache has contracted, and the cache is as it was.
C24_Witness ==
    /\ Working
    /\ ~NoCache
    /\ stage_two_iterations = 2
    /\ Cardinality(LiveVertices) < stage_one_min_vertices
    /\ Cardinality(DOMAIN stage_one_results[1]) = stage_one_min_vertices
    /\ GraphWorkingState # stage_one_results

(***************************************************************************)
(* C25: the stage-two budget.  stage_two_max_iterations is                 *)
(* ceil(C(k,2) * ln k) for the threshold k.  The counter stays within      *)
(* 1..stage_two_max_iterations, and below the maximum while a cache        *)
(* exists; it counts one for the trial that makes the cache and one more   *)
(* at the first pass of every trial that starts from it; the cache is      *)
(* dropped when the count reaches the maximum, so that one cached state    *)
(* serves at most that many trials; after that a trial starts from the     *)
(* graph again, and when it reaches the threshold it caches its state and  *)
(* the counter is 1 again.                                                 *)
(***************************************************************************)
CounterInRange ==
    /\ stage_two_max_iterations = StageTwoMaxIterations(stage_one_min_vertices)
    /\ stage_two_iterations \in 1..stage_two_max_iterations
    /\ ~NoCache => stage_two_iterations < stage_two_max_iterations

\* The counter moves only at the threshold: by one under a cache, to 1 without.
CountsTrials ==
    /\ (PassTaken /\ LiveAtThreshold /\ ~NoCache) =>
           stage_two_iterations' = stage_two_iterations + 1
    /\ (PassTaken /\ LiveAtThreshold /\ NoCache) =>
           (stage_two_iterations' = 1 /\ stage_one_results' = WorkingState)
    /\ ~(PassTaken /\ LiveAtThreshold) => stage_two_iterations' = stage_two_iterations

\* A trial from the cache finds the threshold at its first pass.
CountedAtFirstPass ==
    (TrialStarts /\ ~NoCache) =>
        (Cardinality(DOMAIN vertex_adjacencies') = stage_one_min_vertices
         /\ Len(edges_list') > 1)

\* The cache is dropped by the trial that brings the count to the maximum.
DroppedAtMaximum ==
    (~NoCache /\ stage_one_results' = None) <=>
        (PassTaken /\ LiveAtThreshold /\ ~NoCache
         /\ stage_two_iterations + 1 = stage_two_max_iterations)

\* Without a cache the next trial starts from the graph.
RestartsFromGraph ==
    (TrialStarts /\ NoCache) =>
        <<vertex_adjacencies', edges_list', edges_set', vertex_contractions'>>
            = GraphWorkingState

C25_StageTwoBudget ==
    /\ StageTwoMaxIterations(200) = 105437
    /\ []CounterInRange
    /\ [][CountsTrials /\ CountedAtFirstPass /\ DroppedAtMaximum /\ RestartsFromGraph]_vars

\* A cache has served all its trials and was dropped; a new trial from the graph has
\* contracted down to the threshold and is about to cache its state.
C25_Witness ==
    /\ Working
    /\ NoCache
    /\ stage_two_iterations = stage_two_max_iterations
    /\ LiveAtThreshold
    /\ InnerLoopCondition
    /\ Cardinality(OriginalVertices) > stage_one_min_vertices

(***************************************************************************)
(* C26: the output order is a tie-break by the smallest vertex.  A         *)
(* contraction keeps the smaller endpoint of its edge as the supernode:    *)
(* the vertex that stops being live is larger than the live vertex whose   *)
(* record takes its record in.  So every live vertex is the minimum of its *)
(* own contraction record, every pair of the edge list has its smaller     *)
(* vertex first, and the first returned set is the one that contains the   *)
(* smallest vertex of the whole graph.                                     *)
(***************************************************************************)
MinOf(S) == CHOOSE m \in S : \A v \in S : m <= v

SmallerEndpointSurvives ==
    ContractionDone =>
        \A subnode \in LiveVertices \ DOMAIN vertex_adjacencies' :
            \E supernode \in DOMAIN vertex_contractions' :
                /\ supernode < subnode
                /\ supernode \in LiveVertices
                /\ vertex_contractions'[supernode] =
                       vertex_contractions[supernode] \cup vertex_contractions[subnode]

LiveVertexIsMinimum ==
    Working =>
        /\ \A v \in DOMAIN vertex_contractions : v = MinOf(vertex_contractions[v])
        /\ \A j \in 1..Len(edges_list) : edges_list[j][1] < edges_list[j][2]

SmallestVertexFirst ==
    pc = "returned" =>
        /\ MinOf(OriginalVertices) \in result[1]
        /\ MinOf(OriginalVertices) \notin result[2]
        /\ MinOf(result[1]) < MinOf(result[2])

C26_SmallerEndpointSurvives ==
    /\ [](LiveVertexIsMinimum /\ SmallestVertexFirst)
    /\ [][SmallerEndpointSurvives]_vars

\* The call returned two sets that interleave: the first one holds the smallest
\* vertex, and a vertex larger than one of the second set.
C26_Witness ==
    /\ pc = "returned"
    /\ Cardinality(result[1]) >= 2
    /\ \E v \in result[2] : \E u \in result[1] : v < u

(***************************************************************************)
(* C27: in every working state between contractions, for any two distinct  *)
(* live vertices u and v the recorded multiplicity between u and v is the  *)
(* number of edges of the original graph with one endpoint in u's          *)
(* contraction record and the other in v's; and v is a key of u's Counter  *)
(* exactly when that number is not 0.                                      *)
(***************************************************************************)
RecordCrossing(u, v) == Crossing(vertex_contractions[u], vertex_contractions[v])

C27_MultiplicityCountsCrossingEdges ==
    Working =>
        \A u, v \in LiveVertices :
            u # v =>
                /\ Multiplicity(u, v) = RecordCrossing(u, v)
                /\ v \in CounterKeys(vertex_adjacencies[u]) <=> RecordCrossing(u, v) > 0

\* Three live vertices: two with two edges between their records, two with none.
C27_Witness ==
    /\ Working
    /\ Cardinality(LiveVertices) = 3
    /\ \E u, v, w \in LiveVertices :
           /\ Cardinality({u, v, w}) = 3
           /\ Multiplicity(u, v) = 2
           /\ Cardinality(vertex_contractions[u]) = 2
           /\ w \notin CounterKeys(vertex_adjacencies[u])
           /\ RecordCrossing(u, w) = 0

(***************************************************************************)
(* C28: in every working state the contraction record of every live vertex *)
(* induces a connected subgraph of the original graph; so both returned    *)
(* sets are connected in the original graph, and no bipartition with a     *)
(* disconnected side is returned, whatever its size.                       *)
(***************************************************************************)
RecordsConnected ==
    \A v \in DOMAIN vertex_contractions : ConnectedSet(vertex_contractions[v])

\* The bipartitions of the target size with a side that is not connected.
DisconnectedTargets ==
    {P \in Bipartitions :
        /\ Crossing(P[1], P[2]) = expected_min_cut_size
        /\ ~(ConnectedSet(P[1]) /\ ConnectedSet(P[2]))}

C28_RecordsConnected ==
    /\ Working => RecordsConnected
    /\ pc = "returned" =>
           /\ ConnectedSet(result[1])
           /\ ConnectedSet(result[2])
           /\ <<result[1], result[2]>> \notin DisconnectedTargets
           /\ <<result[2], result[1]>> \notin DisconnectedTargets

\* The call returned two sets of two vertices on a graph in which not every set
\* of two vertices is connected.
C28_Witness ==
    /\ pc = "returned"
    /\ Cardinality(result[1]) = 2
    /\ Cardinality(result[2]) = 2
    /\ \E P \in Bipartitions : Cardinality(P[1]) = 2 /\ ~ConnectedSet(P[1])

(***************************************************************************)
(* C29: with the program's threshold, on a graph of fewer than 200         *)
(* vertices the two stages are never engaged: stage_one_results is None    *)
(* and stage_two_iterations is 1 in every reachable state, and every trial *)
(* starts from the original graph.                                         *)
(***************************************************************************)
SmallGraph ==
    /\ stage_one_min_vertices = StageOneMinVertices(MIN_CUT_STAGE_ONE_FAILURE_PROBABILITY)
    /\ Cardinality(OriginalVertices) < 200

StagesIdle ==
    SmallGraph => (stage_one_results = None /\ stage_two_iterations = 1)

TrialFromGraph ==
    (SmallGraph /\ TrialStarts) =>
        /\ vertex_adjacencies' = GraphWorkingState[1]
        /\ edges_list' = GraphWorkingState[2]
        /\ edges_set' = GraphWorkingState[3]
        /\ vertex_contractions' = GraphWorkingState[4]

C29_SmallGraphNeverStaged ==
    /\ []StagesIdle
    /\ [][TrialFromGraph]_vars

\* A trial on a small graph has ended without the expected size, and the next one
\* is to start.
C29_Witness ==
    /\ SmallGraph
    /\ pc = "start"
    /\ Cardinality(OriginalVertices) = 4
    /\ Cardinality(LiveVertices) = 2
    /\ stage_one_results = None
    /\ stage_two_iterations = 1

(***************************************************************************)
(* src/20/pulse_propagation.py: propagate and count_pulse_types.           *)
(*                                                                         *)
(* A ModulesConfig is the sequence of its modules in the dict's insertion  *)
(* order, each [name, process_pulse, downstream], process_pulse being the  *)
(* name of the function the dict holds.  A ModulesState is the sequence of *)
(* the module states in the same order: a boolean for a flip-flop, None    *)
(* for a broadcast module, and for a conjunction module the sequence of    *)
(* its <<upstream name, memory>> items.  A pulse is a boolean, TRUE for    *)
(* high.  An Optional[bool] is None or Some(b).                            *)
(***************************************************************************)
MaxPresses == 6

Some(b) == <<b>>

OptionalBools == {None, Some(FALSE), Some(TRUE)}

BUTTON_MODULE_NAME == "button"

BROADCASTER_MODULE_NAME == "broadcaster"

\* The module names of the model's configs, in Python's string order.
ModuleNames == <<"a", "b", "broadcaster", "c", "con", "inv", "output">>

NameRank(name) == CHOOSE r \in 1..Len(ModuleNames) : ModuleNames[r] = name

RECURSIVE SortedItems(_)
\* sorted(items) for items of distinct names: by name.
SortedItems(items) ==
    IF items = <<>> THEN <<>>
    ELSE LET least == CHOOSE j \in 1..Len(items) :
                          \A n \in 1..Len(items) :
                              NameRank(items[j][1]) <= NameRank(items[n][1])
         IN <<items[least]>> \o SortedItems(ListWithout(items, least))

\* Lines 40-48.
process_pulse_to_flip_flop_module(module_state, pulse, upstream_module_name) ==
    IF pulse
    THEN [state |-> module_state, transmitted |-> None, err |-> ""]
    ELSE [state |-> ~module_state, transmitted |-> Some(~module_state), err |-> ""]

\* Lines 51-61.
process_pulse_to_conjunction_module(module_state, pulse, upstream_module_name) ==
    IF \A j \in 1..Len(module_state) : module_state[j][1] # upstream_module_name
    THEN [state |-> module_state, transmitted |-> None, err |-> "AssertionError"]
    ELSE LET temp_state ==
                 [j \in 1..Len(module_state) |->
                     IF module_state[j][1] = upstream_module_name
                     THEN <<upstream_module_name, Some(pulse)>>
                     ELSE module_state[j]]
             new_state == SortedItems(temp_state)
         IN [state |-> new_state,
             transmitted |-> IF \A j \in 1..Len(new_state) : new_state[j][2] = Some(TRUE)
                             THEN Some(FALSE) ELSE Some(TRUE),
             err |-> ""]

\* Lines 64-67.
process_pulse_to_broadcast_module(module_state, pulse, upstream_module_name) ==
    [state |-> None, transmitted |-> Some(pulse), err |-> ""]

\* Line 135: the call of the function the config holds for the module.
process_pulse(name, module_state, pulse, upstream_module_name) ==
    CASE name = "process_pulse_to_flip_flop_module" ->
             process_pulse_to_flip_flop_module(module_state, pulse, upstream_module_name)
      [] name = "process_pulse_to_conjunction_module" ->
             process_pulse_to_conjunction_module(module_state, pulse, upstream_module_name)
      [] name = "process_pulse_to_broadcast_module" ->
             process_pulse_to_broadcast_module(module_state, pulse, upstream_module_name)

InConfig(cfg, module_name) == \E j \in 1..Len(cfg) : cfg[j].name = module_name

ModuleIndex(cfg, module_name) == CHOOSE j \in 1..Len(cfg) : cfg[j].name = module_name

RECURSIVE ProcessPulses(_, _, _, _, _)
\* Lines 131-145: the loop over pulses_to_process, a list of
\* <<upstream_module_name, received_pulse, module_name>>.
ProcessPulses(cfg, next_state, pulses_to_process, num_low_pulses, num_high_pulses) ==
    IF pulses_to_process = <<>>
    THEN [state |-> next_state, low |-> num_low_pulses, high |-> num_high_pulses,
          err |-> ""]
    ELSE LET popped == Head(pulses_to_process)
             rest == Tail(pulses_to_process)
             module_name == popped[3]
         IN IF ~InConfig(cfg, module_name)
            THEN [state |-> next_state, low |-> num_low_pulses,
                  high |-> num_high_pulses, err |-> "KeyError"]
            ELSE LET at == ModuleIndex(cfg, module_name)
                     downstream_module_names == cfg[at].downstream
                     processed == process_pulse(cfg[at].process_pulse, next_state[at],
                                                popped[2], popped[1])
                     next_state1 == [next_state EXCEPT ![at] = processed.state]
                 IN IF processed.err # ""
                    THEN [state |-> next_state, low |-> num_low_pulses,
                          high |-> num_high_pulses, err |-> processed.err]
                    ELSE IF processed.transmitted = None
                    THEN ProcessPulses(cfg, next_state1, rest,
                                       num_low_pulses, num_high_pulses)
                    ELSE LET transmitted_pulse == processed.transmitted[1]
                             sent == Len(downstream_module_names)
                             known == SelectSeq(downstream_module_names,
                                                LAMBDA d : InConfig(cfg, d))
                             appended == [j \in 1..Len(known) |->
                                             <<module_name, transmitted_pulse, known[j]>>]
                         IN ProcessPulses(cfg, next_state1, rest \o appended,
                                num_low_pulses + (IF transmitted_pulse THEN 0 ELSE sent),
                                num_high_pulses + (IF transmitted_pulse THEN sent ELSE 0))

\* Lines 125-147: one press of the button.
propagate(cfg, modules_state) ==
    ProcessPulses(cfg, modules_state,
                  << <<BUTTON_MODULE_NAME, FALSE, BROADCASTER_MODULE_NAME>> >>, 1, 0)

(***************************************************************************)
(* The configs of the model: the two of the doctest (lines 182-197), a     *)
(* chain of two flip-flops, and the broadcaster alone.                     *)
(***************************************************************************)
Module(name, function, downstream) ==
    [name |-> name, process_pulse |-> function, downstream |-> downstream]

FlipFlop(name, downstream) == Module(name, "process_pulse_to_flip_flop_module", downstream)

Conjunction(name, downstream) ==
    Module(name, "process_pulse_to_conjunction_module", downstream)

Broadcast(name, downstream) == Module(name, "process_pulse_to_broadcast_module", downstream)

ExampleOneConfig ==
    << Broadcast("broadcaster", <<"a", "b", "c">>),
       FlipFlop("a", <<"b">>),
       FlipFlop("b", <<"c">>),
       FlipFlop("c", <<"inv">>),
       Conjunction("inv", <<"a">>) >>

ExampleTwoConfig ==
    << Broadcast("broadcaster", <<"a">>),
       FlipFlop("a", <<"inv", "con">>),
       Conjunction("inv", <<"b">>),
       FlipFlop("b", <<"con">>),
       Conjunction("con", <<"output">>) >>

FlipFlopChainConfig ==
    << Broadcast("broadcaster", <<"a">>),
       FlipFlop("a", <<"b">>),
       FlipFlop("b", <<"output">>) >>

BroadcasterAloneConfig == << Broadcast("broadcaster", <<"output">>) >>

PulseConfigs ==
    {ExampleOneConfig, ExampleTwoConfig, FlipFlopChainConfig, BroadcasterAloneConfig}

\* Lines 106-109: the modules that name module_name downstream.
UpstreamModules(cfg, module_name) ==
    {cfg[j].name : j \in {n \in 1..Len(cfg) :
                            \E d \in 1..Len(cfg[n].downstream) :
                                cfg[n].downstream[d] = module_name}}

RECURSIVE SortedNames(_)
SortedNames(S) ==
    IF S = {} THEN <<>>
    ELSE LET least == CHOOSE m \in S : \A n \in S : NameRank(m) <= NameRank(n)
         IN <<least>> \o SortedNames(S \ {least})

\* The states a module can be in: what lines 80-86 and 119 start it with, and
\* what the process_pulse functions return.
ModuleStates(cfg, j) ==
    CASE cfg[j].process_pulse = "process_pulse_to_flip_flop_module" -> BOOLEAN
      [] cfg[j].process_pulse = "process_pulse_to_broadcast_module" -> {None}
      [] cfg[j].process_pulse = "process_pulse_to_conjunction_module" ->
             LET upstream == SortedNames(UpstreamModules(cfg, cfg[j].name))
             IN {[n \in 1..Len(upstream) |-> <<upstream[n], memory[n]>>] :
                    memory \in [1..Len(upstream) -> OptionalBools]}

RECURSIVE ModulesStatesFrom(_, _)
ModulesStatesFrom(cfg, j) ==
    IF j > Len(cfg) THEN {<<>>}
    ELSE {<<first>> \o rest : first \in ModuleStates(cfg, j),
                              rest \in ModulesStatesFrom(cfg, j + 1)}

\* Every start state of a config.
ModulesStates(cfg) == ModulesStatesFrom(cfg, 1)

\* Lines 112-119: the initial state parse_modules_config returns with a config.
ParsedInitialState(cfg) ==
    [j \in 1..Len(cfg) |->
        CASE cfg[j].process_pulse = "process_pulse_to_flip_flop_module" -> FALSE
          [] cfg[j].process_pulse = "process_pulse_to_broadcast_module" -> None
          [] cfg[j].process_pulse = "process_pulse_to_conjunction_module" ->
                 LET upstream == SortedNames(UpstreamModules(cfg, cfg[j].name))
                 IN [n \in 1..Len(upstream) |-> <<upstream[n], None>>]]

(***************************************************************************)
(* count_pulse_types(config, state, num_button_presses), lines 150-177.    *)
(***************************************************************************)
InitPulse ==
    /\ config \in PulseConfigs
    /\ initial_state \in ModulesStates(config)
    /\ state = initial_state
    /\ num_button_presses \in 1..MaxPresses
    /\ witnessed_states = <<>>
    /\ witnessed_state_sequence = <<>>
    /\ total_low_pulses = 0
    /\ total_high_pulses = 0
    /\ loop_i = -1
    /\ pulse_pc = "loop"
    /\ pulse_result = <<>>
    \* from_lines and calculate_min_cut are not called.
    /\ lines = <<>>
    /\ hash_seed = 0
    /\ self_vertex_adjacencies = <<>>
    /\ self_edges = {}
    /\ expected_min_cut_size = 0
    /\ stage_one_min_vertices = 0
    /\ stage_two_max_iterations = 0
    /\ stage_one_results = None
    /\ stage_two_iterations = 0
    /\ vertex_adjacencies = <<>>
    /\ edges_list = <<>>
    /\ edges_set = {}
    /\ vertex_contractions = <<>>
    /\ ref = OwnObjects
    /\ pc = "idle"
    /\ result = <<>>
    /\ result_ref = "none"
    /\ error = ""
    /\ error_args = <<>>
    /\ trial_discarded = 0
    /\ history_discarded = 0
    /\ cache_discarded = 0
    /\ twin = TwinOff
    /\ original_graph = from_lines(<<>>)

\* state in witnessed_states
Witnessed(modules_state) ==
    \E j \in 1..Len(witnessed_states) : witnessed_states[j][1] = modules_state

\* witnessed_states[state]
WitnessedValue(modules_state) ==
    witnessed_states[CHOOSE j \in 1..Len(witnessed_states) :
                         witnessed_states[j][1] = modules_state][2]

\* Lines 155-157: the loop comes to a state it has witnessed and breaks.
Break ==
    /\ pulse_pc = "loop"
    /\ Witnessed(state)
    /\ loop_i' = loop_i + 1
    /\ pulse_pc' = "after_loop"
    /\ UNCHANGED <<cut_vars, config, state, num_button_presses, witnessed_states,
                   witnessed_state_sequence, total_low_pulses, total_high_pulses,
                   pulse_result, initial_state>>

\* Lines 155-164: a pass of the loop that presses the button; the loop ends when
\* range(num_button_presses) is exhausted.
Press ==
    /\ pulse_pc = "loop"
    /\ ~Witnessed(state)
    /\ LET pressed == propagate(config, state)
       IN /\ loop_i' = loop_i + 1
          /\ IF pressed.err # ""
             THEN /\ pulse_pc' = "failed"
                  /\ UNCHANGED <<state, witnessed_states, witnessed_state_sequence,
                                 total_low_pulses, total_high_pulses>>
             ELSE /\ witnessed_states' =
                         Append(witnessed_states,
                                <<state, <<loop_i + 1, pressed.low, pressed.high>> >>)
                  /\ witnessed_state_sequence' = Append(witnessed_state_sequence, state)
                  /\ total_low_pulses' = total_low_pulses + pressed.low
                  /\ total_high_pulses' = total_high_pulses + pressed.high
                  /\ state' = pressed.state
                  /\ pulse_pc' = IF loop_i + 2 < num_button_presses
                                 THEN "loop" ELSE "after_loop"
    /\ UNCHANGED <<cut_vars, config, num_button_presses, pulse_result, initial_state>>

\* sum(witnessed_states[s][which] for s in witnessed_state_sequence[from:to]),
\* with the 0-based bounds of the slice.
SumOfSlice(which, from, to) ==
    SeqSum([j \in 1..(to - from) |->
               WitnessedValue(witnessed_state_sequence[from + j])[which]])

\* Line 165: if i < num_button_presses - 1.
CycleToExtrapolate == loop_i < num_button_presses - 1

\* Lines 165-177: the presses left are taken from the cycle; the totals are returned.
Extrapolate ==
    /\ pulse_pc = "after_loop"
    /\ LET cycle_start_index == WitnessedValue(state)[1]
           cycle_length == loop_i - cycle_start_index
           remaining_button_presses == num_button_presses - loop_i
           full_cycles == remaining_button_presses \div cycle_length
           partial_cycle_pos == remaining_button_presses % cycle_length
           cycle_end == Len(witnessed_state_sequence)
           low_of_full == IF full_cycles > 0
                          THEN SumOfSlice(2, cycle_start_index, cycle_end) * full_cycles
                          ELSE 0
           high_of_full == IF full_cycles > 0
                           THEN SumOfSlice(3, cycle_start_index, cycle_end) * full_cycles
                           ELSE 0
           low_of_partial == IF partial_cycle_pos > 0
                             THEN SumOfSlice(2, cycle_start_index,
                                             cycle_start_index + partial_cycle_pos)
                             ELSE 0
           high_of_partial == IF partial_cycle_pos > 0
                              THEN SumOfSlice(3, cycle_start_index,
                                              cycle_start_index + partial_cycle_pos)
                              ELSE 0
       IN IF ~CycleToExtrapolate
          THEN /\ UNCHANGED <<total_low_pulses, total_high_pulses>>
               /\ pulse_result' = <<total_low_pulses, total_high_pulses>>
               /\ pulse_pc' = "returned"
          ELSE IF ~Witnessed(state)
          THEN /\ UNCHANGED <<total_low_pulses, total_high_pulses, pulse_result>>
               /\ pulse_pc' = "failed"
          ELSE IF cycle_length <= 0
          THEN /\ UNCHANGED <<total_low_pulses, total_high_pulses>>
               /\ pulse_result' = <<total_low_pulses, total_high_pulses>>
               /\ pulse_pc' = "returned"
          ELSE /\ total_low_pulses' = total_low_pulses + low_of_full + low_of_partial
               /\ total_high_pulses' = total_high_pulses + high_of_full + high_of_partial
               /\ pulse_result' = <<total_low_pulses', total_high_pulses'>>
               /\ pulse_pc' = "returned"
    /\ UNCHANGED <<cut_vars, config, state, num_button_presses, witnessed_states,
                   witnessed_state_sequence, loop_i, initial_state>>

NextPulse == Break \/ Press \/ Extrapolate

SpecPulse == InitPulse /\ [][NextPulse]_vars

(***************************************************************************)
(* C30: count_pulse_types(config, state, n) returns, for every n >= 1 and  *)
(* every start state, the totals of n presses of the button made one after *)
(* the other with propagate, each from the state the one before left.      *)
(***************************************************************************)
RECURSIVE PressedInSequence(_, _, _)
\* The <<low, high>> totals of n calls of propagate in sequence.
PressedInSequence(cfg, modules_state, n) ==
    IF n = 0 THEN <<0, 0>>
    ELSE LET pressed == propagate(cfg, modules_state)
             later == PressedInSequence(cfg, pressed.state, n - 1)
         IN <<pressed.low + later[1], pressed.high + later[2]>>

C30_SameTotalsAsSequence ==
    pulse_pc = "returned" =>
        pulse_result = PressedInSequence(config, initial_state, num_button_presses)

====
